---- MODULE Spec2Model ----
(***************************************************************************)
(* A model of the tktext buffer (package tktext, type TkText): the line    *)
(* store, the index grammar, marks, and the undo/redo log.                   *)
(*                                                                         *)
(* Text is a sequence of one-character strings; NL is the line break.      *)
(* An index string is modelled by its parse: a base and a sequence of      *)
(* modifiers (see LineChar, EndIdx, NameIdx, AddMod below).                *)
(***************************************************************************)
EXTENDS Integers, Sequences, FiniteSets, TLC

\* ------------------------------------------------------------------ bounds
MaxOps == 3
MaxChars == 5
MaxDeepOps == 7
MaxConcCalls == 1
MaxMarkOps == 4
MaxEditOps == 4
MaxSwitchOps == 4
MaxNameOps == 4
MaxIndexOps == 3

\* ------------------------------------------------------------------ text
NL == "\n"
Letters == {"a", "b"}

Right == "Right"
Left == "Left"

Min(a, b) == IF a < b THEN a ELSE b
Max(a, b) == IF a > b THEN a ELSE b

\* s[a:b] of Go, for 0 <= a <= b <= len(s) (callers check the range first)
Slice(s, a, b) == SubSeq(s, a + 1, b)

\* whether Go evaluates s[a:b] without a run-time panic
SliceOK(s, a, b) == 0 <= a /\ a <= b /\ b <= Len(s)

\* a split that keeps s whole, line breaks included
SplitNone(s) == <<s>>

RECURSIVE Split(_)
\* strings.Split(s, "\n"): the segments of s between line breaks
Split(s) ==
    IF \A i \in 1..Len(s) : s[i] # NL THEN <<s>>
    ELSE LET i == CHOOSE j \in 1..Len(s) :
                      s[j] = NL /\ \A k \in 1..(j - 1) : s[k] # NL
         IN <<SubSeq(s, 1, i - 1)>> \o Split(SubSeq(s, i + 1, Len(s)))

RECURSIVE Join(_)
\* the lines with one line break between consecutive lines
Join(ls) ==
    IF Len(ls) = 0 THEN <<>>
    ELSE IF Len(ls) = 1 THEN ls[1]
    ELSE ls[1] \o <<NL>> \o Join(Tail(ls))

\* ------------------------------------------------------------------ positions
Pos(l, c) == [Line |-> l, Char |-> c]

comparePos(pos1, pos2) ==
    IF pos1.Line # pos2.Line THEN pos1.Line - pos2.Line
    ELSE pos1.Char - pos2.Char

\* ------------------------------------------------------------------ index strings
\* "<line>.<char>", "<line>.end" and "<line>.<word>" (chk = "num", "end", "bad")
LineChar(l, c) == [base |-> [k |-> "lc", line |-> l, chk |-> "num", ch |-> c, name |-> <<>>],
                   mods |-> <<>>]
LineEnd(l) == [base |-> [k |-> "lc", line |-> l, chk |-> "end", ch |-> 0, name |-> <<>>],
               mods |-> <<>>]
LineBad(l) == [base |-> [k |-> "lc", line |-> l, chk |-> "bad", ch |-> 0, name |-> <<>>],
               mods |-> <<>>]
\* "end"
EndIdx == [base |-> [k |-> "end", line |-> 0, chk |-> "num", ch |-> 0, name |-> <<>>],
           mods |-> <<>>]
\* any other leading word: a mark name if one is registered, else a bad base
NameIdx(n) == [base |-> [k |-> "name", line |-> 0, chk |-> "num", ch |-> 0, name |-> n],
               mods |-> <<>>]

\* modifiers: " +n chars", " -n lines", " linestart", ... ; unit "bad" is a word
\* the regexp accepts but no keyword starts with ("characters", "linesoup");
\* k = "bad" is text no modifier regexp matches
Count(sign, n, unit) == [k |-> "count", sign |-> sign, n |-> n, unit |-> unit]
StartEnd(unit) == [k |-> "startend", sign |-> "+", n |-> 0, unit |-> unit]
BadMod == [k |-> "bad", sign |-> "+", n |-> 0, unit |-> "bad"]

AddMod(idx, m) == [idx EXCEPT !.mods = @ \o <<m>>]

\* Position.String(): "%d.%d"
String(p) == LineChar(p.Line, p.Char)

\* fmt.Sprintf("%s +%dc", index, n)
PlusChars(idx, n) == AddMod(idx, Count("+", n, "chars"))

\* ------------------------------------------------------------------ the buffer
\* A TkText value: lines (never empty), marks (name -> position and gravity),
\* the two stacks (front = element 1) and the undo flag.
\* md5.Sum: a digest is represented by the text it was computed from
md5Sum(text) == text

NewBuffer ==
    [lines |-> << <<>> >>, marks |-> << >>, undoStack |-> <<>>, redoStack |-> <<>>,
     undo |-> TRUE, modified |-> FALSE, saveEndPos |-> Pos(1, 0),
     checksum |-> md5Sum(<<>>)]

NoPos == Pos(0, 0)

\* getLine(n) walks n-1 times from the front: n < 1 gives the first line, and
\* n past the last line ends in a nil element whose use panics
getLineOK(t, n) == n <= Len(t.lines)
getLine(t, n) == t.lines[Max(n, 1)]

\* a parseLineChar that reads the char field of a line number below 1 too
parseLineCharOfLineOne(t, idx) ==
    LET b == idx.base
        n == Len(t.lines)
        l == Max(1, Min(b.line, n))
    IN IF b.k # "lc" \/ b.chk = "bad" THEN [err |-> TRUE, pos |-> NoPos]
       ELSE IF b.chk = "end" THEN [err |-> FALSE, pos |-> Pos(l, Len(t.lines[l]))]
       ELSE [err |-> FALSE, pos |-> Pos(l, Min(b.ch, Len(t.lines[l])))]

\* parseLineChar: the "<line>.<char>" base, clamped into the buffer; the line
\* and char fields are digit strings that strconv.ParseInt takes
parseLineChar(t, idx) ==
    LET b == idx.base
        n == Len(t.lines)
    IN IF b.k # "lc" THEN [err |-> TRUE, pos |-> NoPos]
       ELSE IF b.line < 1 THEN [err |-> FALSE, pos |-> Pos(1, 0)]
       ELSE IF b.line > n THEN [err |-> FALSE, pos |-> Pos(n, Len(t.lines[n]))]
       ELSE IF b.chk = "end"
            THEN [err |-> FALSE, pos |-> Pos(b.line, Len(getLine(t, b.line)))]
       ELSE IF b.chk = "num"
            THEN [err |-> FALSE, pos |-> Pos(b.line, Min(b.ch, Len(getLine(t, b.line))))]
       ELSE [err |-> TRUE, pos |-> NoPos]

\* strings.HasPrefix(s, prefix)
HasPrefix(s, prefix) ==
    Len(prefix) <= Len(s) /\ SubSeq(s, 1, Len(prefix)) = prefix

RECURSIVE markBaseLoop(_, _, _, _, _)
\* the loop of Index over t.marks, in the order `order` enumerates the map:
\* the longest match so far wins, and the matched prefix is cut off `index`
markBaseLoop(t, order, index, pos, prefixLen) ==
    IF order = <<>> THEN [pos |-> pos, rest |-> index]
    ELSE LET k == Head(order)
         IN IF HasPrefix(index, k) /\ Len(k) > prefixLen
            THEN markBaseLoop(t, Tail(order), SubSeq(index, Len(k) + 1, Len(index)),
                              Pos(t.marks[k].Line, t.marks[k].Char), Len(k))
            ELSE markBaseLoop(t, Tail(order), index, pos, prefixLen)

IsWord(c) == c \in Letters

\* a walk forward that stops at the end of the line of pos whatever delta is
charsForwardToLineEnd(t, pos, delta) ==
    Pos(pos.Line, Len(getLine(t, pos.Line)))

RECURSIVE charsForward(_, _, _)
\* "+n chars", n >= 0: walk forward, a line break counting as one character
charsForward(t, pos, delta) ==
    LET length == Len(getLine(t, pos.Line))
    IN IF delta + pos.Char > length /\ pos.Line < Len(t.lines)
       THEN charsForward(t, Pos(pos.Line + 1, 0), delta - (length - pos.Char + 1))
       ELSE IF delta + pos.Char <= length THEN Pos(pos.Line, pos.Char + delta)
       ELSE Pos(pos.Line, length)

\* "-n chars" reads the line above pos while it walks: a nil line when pos.Line
\* is more than one past the last line
charsBackwardOK(t, pos, delta) ==
    ~(delta > pos.Char /\ pos.Line > 1 /\ ~getLineOK(t, pos.Line - 1))

\* a walk backward that does not count the line break it crosses
charsBackwardOverBreak(t, pos, delta) ==
    IF delta > pos.Char /\ pos.Line > 1
    THEN Pos(pos.Line - 1,
             Max(0, Len(getLine(t, pos.Line - 1)) - (delta - pos.Char)))
    ELSE IF delta <= pos.Char THEN Pos(pos.Line, pos.Char - delta)
    ELSE Pos(pos.Line, 0)

RECURSIVE charsBackward(_, _, _)
\* "-n chars", n > 0: walk backward
charsBackward(t, pos, delta) ==
    IF delta > pos.Char /\ pos.Line > 1
    THEN charsBackward(t, Pos(pos.Line - 1, Len(getLine(t, pos.Line - 1))),
                       delta - (pos.Char + 1))
    ELSE IF delta <= pos.Char THEN Pos(pos.Line, pos.Char - delta)
    ELSE Pos(pos.Line, 0)

RECURSIVE wordStart(_, _)
wordStart(line, c) ==
    IF c > 0 /\ IsWord(line[c]) THEN wordStart(line, c - 1) ELSE c

RECURSIVE wordEnd(_, _)
wordEnd(line, c) ==
    IF c < Len(line) /\ IsWord(line[c + 1]) THEN wordEnd(line, c + 1) ELSE c

\* a "lines" move that puts the char at the start of the new line
linesMoveToStart(t, pos, delta) ==
    Pos(Max(1, Min(Len(t.lines), pos.Line + delta)), 0)

\* "+n lines", "-n lines": the line moves by delta within the buffer, and the
\* char is cut to the length of the new line
linesMove(t, pos, delta) ==
    LET l == Max(1, Min(Len(t.lines), pos.Line + delta))
        length == Len(getLine(t, l))
    IN Pos(l, IF pos.Char >= length THEN length ELSE pos.Char)

\* one modifier applied to pos: [panic, pos]
applyModifier(t, pos, m) ==
    IF m.k = "count"
    THEN LET delta == IF m.sign = "-" THEN -m.n ELSE m.n
         IN IF m.unit = "chars"
            THEN IF delta >= 0
                 THEN IF ~getLineOK(t, pos.Line) THEN [panic |-> TRUE, pos |-> pos]
                      ELSE [panic |-> FALSE, pos |-> charsForward(t, pos, delta)]
                 ELSE IF ~charsBackwardOK(t, pos, -delta) THEN [panic |-> TRUE, pos |-> pos]
                 ELSE [panic |-> FALSE, pos |-> charsBackward(t, pos, -delta)]
            ELSE IF m.unit = "lines"
            THEN [panic |-> FALSE, pos |-> linesMove(t, pos, delta)]
            ELSE [panic |-> TRUE, pos |-> pos]
    ELSE IF m.k = "startend"
    THEN IF m.unit \notin {"linestart", "lineend", "wordstart", "wordend"}
         THEN [panic |-> TRUE, pos |-> pos]
         ELSE IF m.unit = "linestart" THEN [panic |-> FALSE, pos |-> Pos(pos.Line, 0)]
         ELSE IF ~getLineOK(t, pos.Line) THEN [panic |-> TRUE, pos |-> pos]
         ELSE LET line == getLine(t, pos.Line)
              IN IF m.unit = "lineend"
                 THEN [panic |-> FALSE, pos |-> Pos(pos.Line, Len(line))]
                 ELSE IF m.unit = "wordstart"
                 THEN IF pos.Char > Len(line) THEN [panic |-> TRUE, pos |-> pos]
                      ELSE [panic |-> FALSE, pos |-> Pos(pos.Line, wordStart(line, pos.Char))]
                 ELSE [panic |-> FALSE, pos |-> Pos(pos.Line, wordEnd(line, pos.Char))]
    ELSE [panic |-> TRUE, pos |-> pos]

RECURSIVE applyModifiers(_, _, _)
\* the modifiers applied from left to right; r is the result so far
applyModifiers(t, r, mods) ==
    IF mods = <<>> \/ r.panic THEN r
    ELSE applyModifiers(t, applyModifier(t, r.pos, Head(mods)), Tail(mods))

\* the base of an index: [pos, rest], pos.Line = 0 when nothing matched; lc is
\* what parseLineChar made of it
indexBase(t, idx, order, lc) ==
    IF ~lc.err THEN [pos |-> lc.pos, rest |-> <<>>]
    ELSE IF idx.base.k = "end"
    THEN [pos |-> Pos(Len(t.lines), Len(t.lines[Len(t.lines)])), rest |-> <<>>]
    ELSE markBaseLoop(t, order, idx.base.name, NoPos, 0)

\* the modifiers after the base; what is left of the leading word is no modifier
indexModifiers(t, idx, base) ==
    IF base.pos.Line = 0 THEN [panic |-> TRUE, pos |-> NoPos]
    ELSE IF base.rest # <<>> THEN [panic |-> TRUE, pos |-> NoPos]
    ELSE applyModifiers(t, [panic |-> FALSE, pos |-> base.pos], idx.mods)

\* Index with the mark table enumerated in the order `order`: [panic, pos]
IndexIn(t, idx, order) ==
    indexModifiers(t, idx, indexBase(t, idx, order, parseLineChar(t, idx)))

RECURSIVE SeqOfSet(_)
\* one enumeration of a finite set
SeqOfSet(S) ==
    IF S = {} THEN <<>>
    ELSE LET x == CHOOSE y \in S : TRUE IN <<x>> \o SeqOfSet(S \ {x})

\* Index(index); the names of MarkNameSet are no prefixes of one another, so
\* the order in which the map is enumerated does not show
Index(t, idx) == IndexIn(t, idx, SeqOfSet(DOMAIN t.marks))

comparePositions(p1, p2) ==
    IF p1.panic \/ p2.panic THEN [panic |-> TRUE, n |-> 0]
    ELSE [panic |-> FALSE, n |-> comparePos(p1.pos, p2.pos)]

\* Compare(index1, index2): [panic, n]
Compare(t, index1, index2) == comparePositions(Index(t, index1), Index(t, index2))

RECURSIVE getLoop(_, _, _, _, _)
\* the loop of Get over lines i..end.Line: [panic, text]
getLoop(t, start, end, i, text) ==
    IF i > end.Line THEN [panic |-> FALSE, text |-> text]
    ELSE IF i > Len(t.lines) THEN [panic |-> TRUE, text |-> text]
    ELSE LET s == t.lines[i]
             sep == IF i # start.Line THEN <<NL>> ELSE <<>>
             a == IF i = start.Line THEN start.Char ELSE 0
             b == IF i = end.Line THEN end.Char ELSE Len(s)
         IN IF ~SliceOK(s, a, b) THEN [panic |-> TRUE, text |-> text]
            ELSE getLoop(t, start, end, i + 1, text \o sep \o Slice(s, a, b))

\* the text between two positions, as Get reads it under its lock
getRange(t, start, end) ==
    IF comparePos(start, end) >= 0 THEN [panic |-> FALSE, text |-> <<>>]
    ELSE getLoop(t, start, end, start.Line, <<>>)

getPositions(t, p1, p2) ==
    IF p1.panic \/ p2.panic THEN [panic |-> TRUE, text |-> <<>>]
    ELSE getRange(t, p1.pos, p2.pos)

\* Get(index1, index2): [panic, text]
Get(t, index1, index2) == getPositions(t, Index(t, index1), Index(t, index2))

RECURSIVE countLoop(_, _, _, _)
\* the loop of CountChars from line i up to the line of pos2
countLoop(t, i, pos2, n) ==
    IF i < pos2.Line THEN countLoop(t, i + 1, pos2, n + Len(t.lines[i]) + 1)
    ELSE n

\* CountChars between two positions, pos1 the earlier when reverse is FALSE
countBetween(t, pos1, pos2, reverse) ==
    IF reverse THEN 0 - (countLoop(t, pos2.Line, pos1, 0) + pos1.Char - pos2.Char)
    ELSE countLoop(t, pos1.Line, pos2, 0) + pos2.Char - pos1.Char

\* getLine walks off the list when pos1 is more than one line past the last
\* line, and the loop reads a nil line when it runs past the last line
countOK(t, pos1, pos2) ==
    /\ pos1.Line <= Len(t.lines) + 1
    /\ pos1.Line < pos2.Line => pos2.Line <= Len(t.lines) + 1

countPositions(t, p1, p2) ==
    IF p1.panic \/ p2.panic THEN [panic |-> TRUE, n |-> 0]
    ELSE IF comparePos(p1.pos, p2.pos) > 0
    THEN IF countOK(t, p2.pos, p1.pos)
         THEN [panic |-> FALSE, n |-> countBetween(t, p1.pos, p2.pos, TRUE)]
         ELSE [panic |-> TRUE, n |-> 0]
    ELSE IF countOK(t, p1.pos, p2.pos)
         THEN [panic |-> FALSE, n |-> countBetween(t, p1.pos, p2.pos, FALSE)]
         ELSE [panic |-> TRUE, n |-> 0]

\* CountChars(index1, index2): [panic, n]
CountChars(t, index1, index2) ==
    countPositions(t, Index(t, index1), Index(t, index2))

\* CountLines(index1, index2): [panic, n]
CountLines(t, index1, index2) ==
    IF Index(t, index1).panic \/ Index(t, index2).panic THEN [panic |-> TRUE, n |-> 0]
    ELSE [panic |-> FALSE, n |-> Index(t, index2).pos.Line - Index(t, index1).pos.Line]

\* the whole content, lines joined by line breaks
Content(t) == Join(t.lines)

\* what a call hands back: whether it panicked, whether the panic left the
\* exclusive lock locked, and the buffer it leaves
Ok(t) == [panic |-> FALSE, held |-> FALSE, t |-> t]
Panic(t, held) == [panic |-> TRUE, held |-> held, t |-> t]

\* ------------------------------------------------------------------ del
RemoveAt(ls, i) == SubSeq(ls, 1, i - 1) \o SubSeq(ls, i + 1, Len(ls))

RECURSIVE delLoop(_, _, _, _, _)
\* the loop of del over lines i..end.Line; the line being built stays at
\* start.Line and the lines after it are removed one by one: [panic, lines, b]
delLoop(lines, start, end, i, b) ==
    LET L == start.Line
        sc == start.Char
        ec == end.Char
    IN IF i > end.Line THEN [panic |-> FALSE, lines |-> lines, b |-> b]
       ELSE IF i = start.Line
       THEN LET s == lines[L]
            IN IF i = end.Line
               THEN IF ~(sc <= Len(s) /\ ec <= Len(s))
                    THEN [panic |-> TRUE, lines |-> lines, b |-> b]
                    ELSE IF sc > ec
                    THEN [panic |-> TRUE, b |-> b,
                          lines |-> [lines EXCEPT
                                       ![L] = Slice(s, 0, sc) \o Slice(s, ec, Len(s))]]
                    ELSE delLoop([lines EXCEPT
                                    ![L] = Slice(s, 0, sc) \o Slice(s, ec, Len(s))],
                                 start, end, i + 1, b \o Slice(s, sc, ec))
               ELSE IF sc > Len(s) THEN [panic |-> TRUE, lines |-> lines, b |-> b]
               ELSE delLoop([lines EXCEPT ![L] = Slice(s, 0, sc)], start, end, i + 1,
                            b \o Slice(s, sc, Len(s)) \o <<NL>>)
       ELSE IF L + 1 > Len(lines) THEN [panic |-> TRUE, lines |-> lines, b |-> b]
       ELSE LET next == lines[L + 1]
            IN IF i = end.Line
               THEN IF ec > Len(next) THEN [panic |-> TRUE, lines |-> lines, b |-> b]
                    ELSE delLoop(RemoveAt([lines EXCEPT
                                             ![L] = @ \o Slice(next, ec, Len(next))], L + 1),
                                 start, end, i + 1, b \o Slice(next, 0, ec))
               ELSE delLoop(RemoveAt(lines, L + 1), start, end, i + 1, b \o next \o <<NL>>)

\* a mark update that leaves the marks inside the deleted range where they were
delMarkInRangeKept(m, start, end) ==
    IF comparePos(start, m) <= 0 /\ comparePos(m, end) > 0
    THEN [m EXCEPT !.Char = IF m.Line = end.Line /\ start.Line = end.Line
                            THEN m.Char - (end.Char - start.Char) ELSE m.Char,
                   !.Line = m.Line - (end.Line - start.Line)]
    ELSE m

\* the mark update of del
delMark(m, start, end) ==
    IF comparePos(start, m) <= 0
    THEN IF comparePos(m, end) <= 0
         THEN [m EXCEPT !.Line = start.Line, !.Char = start.Char]
         ELSE [m EXCEPT !.Char = IF m.Line = end.Line /\ start.Line = end.Line
                                 THEN m.Char - (end.Char - start.Char) ELSE m.Char,
                        !.Line = m.Line - (end.Line - start.Line)]
    ELSE m

delMarks(marks, start, end) ==
    [n \in DOMAIN marks |-> delMark(marks[n], start, end)]

\* the marks are moved once the loop r over the lines has ended
delFinish(t, start, end, r) ==
    IF r.panic THEN [panic |-> TRUE, t |-> [t EXCEPT !.lines = r.lines], b |-> r.b]
    ELSE [panic |-> FALSE, b |-> r.b,
          t |-> [t EXCEPT !.lines = r.lines, !.marks = delMarks(t.marks, start, end)]]

\* del between Lock and the first Unlock: the text is cut out and the marks are
\* moved: [panic, t, b]; a panic leaves the lock held and the lines as they are then
delMutate(t, start, end) ==
    IF start.Line > Len(t.lines) + 1 THEN [panic |-> TRUE, t |-> t, b |-> <<>>]
    ELSE IF start.Line <= end.Line /\ start.Line > Len(t.lines)
    THEN [panic |-> TRUE, t |-> t, b |-> <<>>]
    ELSE delFinish(t, start, end, delLoop(t.lines, start, end, start.Line, <<>>))

InsertOp(sp, ep, s) == [k |-> "insert", sp |-> sp, ep |-> ep, s |-> s]
DeleteOp(sp, ep, s) == [k |-> "delete", sp |-> sp, ep |-> ep, s |-> s]
Separator == [k |-> "sep", sp |-> EndIdx, ep |-> EndIdx, s |-> <<>>]

PushFront(stack, e) == <<e>> \o stack

\* the front of a stack is an entry of kind k
FrontIs(stack, k) == stack # <<>> /\ stack[1].k = k

\* del's undo record: a delete that starts where the front deleteOp starts, or
\* ends there, is merged into it
delRecord(t, start, end, b) ==
    IF FrontIs(t.undoStack, "delete") /\ t.undoStack[1].sp = String(start)
    THEN [t EXCEPT !.undoStack[1] =
                     DeleteOp(String(start), PlusChars(String(end), Len(@.s)), @.s \o b)]
    ELSE IF FrontIs(t.undoStack, "delete") /\ t.undoStack[1].sp = String(end)
    THEN [t EXCEPT !.undoStack[1] =
                     DeleteOp(String(start), PlusChars(String(end), Len(@.s)), b \o @.s)]
    ELSE [t EXCEPT !.undoStack = PushFront(@, DeleteOp(String(start), String(end), b))]

\* del after the first Unlock; r is what delMutate did
delAfter(t, start, end, undo, r) ==
    IF r.panic THEN Panic(r.t, TRUE)
    ELSE IF undo /\ t.undo THEN Ok(delRecord(r.t, start, end, r.b))
    ELSE Ok(r.t)

delAt(t, start, end, undo) ==
    IF start.panic \/ end.panic THEN Panic(t, FALSE)
    ELSE delAfter(t, start.pos, end.pos, undo, delMutate(t, start.pos, end.pos))

\* del(startIndex, endIndex, undo)
del(t, startIndex, endIndex, undo) ==
    delAt(t, Index(t, startIndex), Index(t, endIndex), undo)

\* a public edit empties the redo stack once its edit is done
clearRedo(r) == IF r.panic THEN r ELSE [r EXCEPT !.t.redoStack = <<>>]

\* a Delete that calls del whatever the comparison of its indices says
deleteIfUnguarded(t, index1, index2, c) ==
    IF c.panic THEN Panic(t, FALSE)
    ELSE clearRedo(del(t, index1, index2, TRUE))

deleteIf(t, index1, index2, c) ==
    IF c.panic THEN Panic(t, FALSE)
    ELSE IF c.n < 0 THEN clearRedo(del(t, index1, index2, TRUE))
    ELSE Ok(t)

\* Delete(index1, index2)
Delete(t, index1, index2) == deleteIf(t, index1, index2, Compare(t, index1, index2))

\* ------------------------------------------------------------------ insert
\* a mark update that moves the char of a mark by len(s) for a multi-line s too
insertMarkCharBySlen(m, start, nlines, slen, lastLen) ==
    IF m.Line > start.Line THEN [m EXCEPT !.Line = @ + nlines - 1]
    ELSE IF m.Line = start.Line /\ m.Char >= start.Char
    THEN [m EXCEPT !.Line = @ + nlines - 1,
                   !.Char = IF m.gravity = Right \/ m.Char > start.Char
                            THEN @ + slen ELSE @]
    ELSE m

\* the mark update of insert; nlines = len(lines), the number of segments of s,
\* and lastLen = the length of the last inserted line before the splice
insertMark(m, start, nlines, slen, lastLen) ==
    IF m.Line > start.Line THEN [m EXCEPT !.Line = @ + nlines - 1]
    ELSE IF m.Line = start.Line /\ m.Char >= start.Char
    THEN [m EXCEPT !.Line = @ + nlines - 1,
                   !.Char = IF m.gravity = Right \/ m.Char > start.Char
                            THEN IF nlines = 1 THEN @ + slen
                                 ELSE @ + lastLen - start.Char
                            ELSE @]
    ELSE m

insertMarks(marks, start, slen, segs) ==
    [n \in DOMAIN marks |->
       insertMark(marks[n], start, Len(segs), slen, Len(segs[Len(segs)]))]

\* the start line L spliced with the inserted lines segs, which follow it
spliceLines(lines, L, c, segs) ==
    SubSeq(lines, 1, L - 1)
    \o (IF Len(segs) = 1
        THEN << Slice(lines[L], 0, c) \o segs[1] \o Slice(lines[L], c, Len(lines[L])) >>
        ELSE << Slice(lines[L], 0, c) \o segs[1] >>
             \o SubSeq(segs, 2, Len(segs) - 1)
             \o << segs[Len(segs)] \o Slice(lines[L], c, Len(lines[L])) >>)
    \o SubSeq(lines, L + 1, Len(lines))

\* insert at the start line L (the last line when start.Line is past it)
insertAtLine(t, start, s, L, segs) ==
    IF start.Char > Len(t.lines[L])
    THEN [panic |-> TRUE,
          t |-> [t EXCEPT !.lines = SubSeq(t.lines, 1, L) \o segs
                                    \o SubSeq(t.lines, L + 1, Len(t.lines)),
                          !.marks = insertMarks(t.marks, start, Len(s), segs)]]
    ELSE [panic |-> FALSE,
          t |-> [t EXCEPT !.lines = spliceLines(t.lines, L, start.Char, segs),
                          !.marks = insertMarks(t.marks, start, Len(s), segs)]]

\* insert between Lock and the first Unlock: [panic, t]; the lines of s are put in
\* after the start line, the marks are moved, and then the start line is spliced
\* (a start.Char past the line panics there, with the lock held)
insertMutate(t, start, s) ==
    insertAtLine(t, start, s, Max(1, Min(start.Line, Len(t.lines))), Split(s))

\* an insert record that is pushed as a new entry whatever is in front
insertPushAlways(t, index, start, s, end) ==
    IF end.panic THEN Panic(t, FALSE)
    ELSE Ok([t EXCEPT !.undoStack =
               PushFront(@, InsertOp(String(start), String(end.pos), s))])

\* the end of the inserted text resolved, the entry is pushed or merged: an
\* insert that starts where the front insertOp ends, or where it starts, is
\* merged into it; in the second case the end is resolved again, from the index
\* string the caller passed
insertPush(t, index, start, s, end) ==
    IF end.panic THEN Panic(t, FALSE)
    ELSE IF FrontIs(t.undoStack, "insert") /\ t.undoStack[1].ep = String(start)
    THEN Ok([t EXCEPT !.undoStack[1] = InsertOp(@.sp, String(end.pos), @.s \o s)])
    ELSE IF FrontIs(t.undoStack, "insert") /\ t.undoStack[1].sp = String(start)
    THEN IF Index(t, PlusChars(index, Len(s \o t.undoStack[1].s))).panic
         THEN Panic(t, FALSE)
         ELSE Ok([t EXCEPT !.undoStack[1] =
                    InsertOp(String(start),
                             String(Index(t, PlusChars(index, Len(s \o @.s))).pos),
                             s \o @.s)])
    ELSE Ok([t EXCEPT !.undoStack =
               PushFront(@, InsertOp(String(start), String(end.pos), s))])

\* insert's undo record
insertRecord(t, index, start, s) ==
    insertPush(t, index, start, s, Index(t, PlusChars(String(start), Len(s))))

\* an insert that records whether or not the undo mechanism is enabled
insertAfterAlways(t, index, start, s, undo, r) ==
    IF r.panic THEN Panic(r.t, TRUE)
    ELSE IF undo THEN insertRecord(r.t, index, start, s)
    ELSE Ok(r.t)

\* insert after the first Unlock; r is what insertMutate did
insertAfter(t, index, start, s, undo, r) ==
    IF r.panic THEN Panic(r.t, TRUE)
    ELSE IF undo /\ t.undo THEN insertRecord(r.t, index, start, s)
    ELSE Ok(r.t)

insertAt(t, index, s, undo, start) ==
    IF start.panic THEN Panic(t, FALSE)
    ELSE insertAfter(t, index, start.pos, s, undo, insertMutate(t, start.pos, s))

\* insert(index, s, undo)
insert(t, index, s, undo) == insertAt(t, index, s, undo, Index(t, index))

\* Insert without the RedoStack reset that follows the edit
InsertKeepsRedo(t, index, s) ==
    IF s # <<>> THEN insert(t, index, s, TRUE) ELSE Ok(t)

\* Insert(index, s)
Insert(t, index, s) ==
    IF s # <<>> THEN clearRedo(insert(t, index, s, TRUE)) ELSE Ok(t)

replaceInsert(d, index1, s) == IF d.panic THEN d ELSE Insert(d.t, index1, s)

replaceAt(t, p1, index2, s) ==
    IF p1.panic THEN Panic(t, FALSE)
    ELSE replaceInsert(Delete(t, String(p1.pos), index2), String(p1.pos), s)

\* Replace(index1, index2, s)
Replace(t, index1, index2, s) == replaceAt(t, Index(t, index1), index2, s)

\* ------------------------------------------------------------------ marks
markPut(t, name, p) ==
    IF p.panic THEN Panic(t, FALSE)
    ELSE Ok([t EXCEPT !.marks =
               [n \in DOMAIN t.marks \cup {name} |->
                  IF n = name
                  THEN [Line |-> p.pos.Line, Char |-> p.pos.Char, gravity |-> Right]
                  ELSE t.marks[n]]])

\* MarkSet(name, index): the mark is made anew at the position, gravity Right
MarkSet(t, name, index) == markPut(t, name, Index(t, index))

\* MarkSetGravity(name, direction): [err, t]
MarkSetGravity(t, name, direction) ==
    IF name \notin DOMAIN t.marks THEN [err |-> TRUE, t |-> t]
    ELSE [err |-> FALSE, t |-> [t EXCEPT !.marks[name].gravity = direction]]

\* MarkGetGravity(name): [err, gravity]
MarkGetGravity(t, name) ==
    IF name \notin DOMAIN t.marks THEN [err |-> TRUE, gravity |-> Right]
    ELSE [err |-> FALSE, gravity |-> t.marks[name].gravity]

\* MarkUnset(name)
MarkUnset(t, name) ==
    [t EXCEPT !.marks = [n \in DOMAIN t.marks \ {name} |-> t.marks[n]]]

\* ------------------------------------------------------------------ stepping through marks
\* the byte of a character, which Go's string comparison goes by
byteOf(c) == IF c = "a" THEN 97 ELSE IF c = "b" THEN 98 ELSE 10

RECURSIVE stringLess(_, _)
\* x < y on Go strings
stringLess(x, y) ==
    IF y = <<>> THEN FALSE
    ELSE IF x = <<>> THEN TRUE
    ELSE IF x[1] # y[1] THEN byteOf(x[1]) < byteOf(y[1])
    ELSE stringLess(Tail(x), Tail(y))

\* markSort.Less on the marks named n1 and n2
markLess(t, n1, n2) ==
    IF t.marks[n1].Line # t.marks[n2].Line THEN t.marks[n1].Line < t.marks[n2].Line
    ELSE IF t.marks[n1].Char # t.marks[n2].Char
    THEN t.marks[n1].Char < t.marks[n2].Char
    ELSE stringLess(n1, n2)

\* the enumerations of the set S
Orders(S) ==
    {o \in [1..Cardinality(S) -> S] :
        \A i \in DOMAIN o, j \in DOMAIN o : i # j => o[i] # o[j]}

\* sortedMarks(reverse): the names of the marks in the order of markSort
sortedMarks(t, reverse) ==
    CHOOSE o \in Orders(DOMAIN t.marks) :
       \A i \in DOMAIN o, j \in DOMAIN o :
          i < j => IF reverse THEN markLess(t, o[j], o[i]) ELSE markLess(t, o[i], o[j])

\* t.marks[index] != nil: the whole index string is the name of a set mark
indexIsMark(t, idx) ==
    idx.base.k = "name" /\ idx.mods = <<>> /\ idx.base.name \in DOMAIN t.marks

\* the tests of MarkNext and MarkPrevious on the mark named n
isNext(t, n, pos, isMark, index) ==
    \/ t.marks[n].Line > pos.Line
    \/ /\ t.marks[n].Line = pos.Line
       /\ \/ t.marks[n].Char > pos.Char
          \/ t.marks[n].Char = pos.Char /\ (~isMark \/ stringLess(index, n))

isPrevious(t, n, pos, isMark, index) ==
    \/ t.marks[n].Line < pos.Line
    \/ /\ t.marks[n].Line = pos.Line
       /\ \/ t.marks[n].Char < pos.Char
          \/ t.marks[n].Char = pos.Char /\ (~isMark \/ stringLess(n, index))

RECURSIVE markScan(_, _, _, _, _, _)
\* the loop over the sorted marks: the first name that passes the test, or ""
markScan(t, ms, pos, isMark, index, reverse) ==
    IF ms = <<>> THEN <<>>
    ELSE IF (IF reverse THEN isPrevious(t, Head(ms), pos, isMark, index)
             ELSE isNext(t, Head(ms), pos, isMark, index))
    THEN Head(ms)
    ELSE markScan(t, Tail(ms), pos, isMark, index, reverse)

markStep(t, idx, p, reverse) ==
    IF p.panic THEN [panic |-> TRUE, name |-> <<>>]
    ELSE [panic |-> FALSE,
          name |-> markScan(t, sortedMarks(t, reverse), p.pos, indexIsMark(t, idx),
                            idx.base.name, reverse)]

\* MarkNext(index) and MarkPrevious(index), the map of marks enumerated by
\* Index in the order `order`: [panic, name]
MarkNext(t, idx, order) == markStep(t, idx, IndexIn(t, idx, order), FALSE)
MarkPrevious(t, idx, order) == markStep(t, idx, IndexIn(t, idx, order), TRUE)

\* ------------------------------------------------------------------ undo and redo
RECURSIVE undoLoop(_, _)
\* the entry v at the front has been inverted with result r: it moves to the
\* redo stack and the loop goes on
undoMove(i, v, r) ==
    IF r.panic THEN [panic |-> TRUE, held |-> r.held, t |-> r.t, i |-> i]
    ELSE undoLoop([r.t EXCEPT !.undoStack = Tail(@), !.redoStack = PushFront(@, v)],
                  i + 1)

\* the loop of EditUndo with i entries moved so far: [panic, held, t, i]
undoLoop(t, i) ==
    IF t.undoStack = <<>> THEN [panic |-> FALSE, held |-> FALSE, t |-> t, i |-> i]
    ELSE IF t.undoStack[1].k = "sep"
    THEN IF i # 0 THEN [panic |-> FALSE, held |-> FALSE, t |-> t, i |-> i]
         ELSE undoMove(i, t.undoStack[1], Ok(t))
    ELSE IF t.undoStack[1].k = "insert"
    THEN undoMove(i, t.undoStack[1], del(t, t.undoStack[1].sp, t.undoStack[1].ep, FALSE))
    ELSE undoMove(i, t.undoStack[1],
                  insert(t, t.undoStack[1].sp, t.undoStack[1].s, FALSE))

undoReturn(r) == [panic |-> r.panic, held |-> r.held, t |-> r.t, ret |-> r.i > 0]

\* EditUndo(): [panic, held, t, ret]
EditUndo(t) ==
    IF ~t.undo THEN [panic |-> FALSE, held |-> FALSE, t |-> t, ret |-> FALSE]
    ELSE undoReturn(undoLoop(t, 0))

RECURSIVE redoLoop(_, _, _)
redoMove(i, redone, v, r) ==
    IF r.panic THEN [panic |-> TRUE, held |-> r.held, t |-> r.t, redone |-> redone]
    ELSE redoLoop([r.t EXCEPT !.redoStack = Tail(@), !.undoStack = PushFront(@, v)],
                  i + 1, redone)

\* the loop of EditRedo: [panic, held, t, redone]
redoLoop(t, i, redone) ==
    IF t.redoStack = <<>>
    THEN [panic |-> FALSE, held |-> FALSE, t |-> t, redone |-> redone]
    ELSE IF t.redoStack[1].k = "sep"
    THEN IF i # 0 THEN [panic |-> FALSE, held |-> FALSE, t |-> t, redone |-> redone]
         ELSE redoMove(i, redone, t.redoStack[1], Ok(t))
    ELSE IF t.redoStack[1].k = "insert"
    THEN redoMove(i, TRUE, t.redoStack[1],
                  insert(t, t.redoStack[1].sp, t.redoStack[1].s, FALSE))
    ELSE redoMove(i, TRUE, t.redoStack[1],
                  del(t, t.redoStack[1].sp, t.redoStack[1].ep, FALSE))

redoReturn(r) == [panic |-> r.panic, held |-> r.held, t |-> r.t, ret |-> r.redone]

\* EditRedo(): [panic, held, t, ret]
EditRedo(t) ==
    IF ~t.undo THEN [panic |-> FALSE, held |-> FALSE, t |-> t, ret |-> FALSE]
    ELSE redoReturn(redoLoop(t, 0, FALSE))

\* an EditSeparator that pushes a separator whatever the stack holds
EditSeparatorAlways(t) == [t EXCEPT !.undoStack = PushFront(@, Separator)]

\* EditSeparator()
EditSeparator(t) ==
    IF t.undoStack # <<>> /\ t.undoStack[1].k # "sep"
    THEN [t EXCEPT !.undoStack = PushFront(@, Separator)]
    ELSE t

\* EditReset()
EditReset(t) == [t EXCEPT !.undoStack = <<>>, !.redoStack = <<>>]

\* the position of the end of the buffer
endPos(t) == Pos(Len(t.lines), Len(t.lines[Len(t.lines)]))

\* EditGetModified()
EditGetModified(t) ==
    IF t.modified THEN TRUE
    ELSE IF endPos(t) # t.saveEndPos THEN TRUE
    ELSE t.checksum # md5Sum(Get(t, LineChar(1, 0), EndIdx).text)

\* an EditSetModified that sets the flag and saveEndPos and keeps the old digest
EditSetModifiedKeepsDigest(t, m) ==
    IF m THEN [t EXCEPT !.modified = TRUE]
    ELSE [t EXCEPT !.modified = FALSE, !.saveEndPos = endPos(t)]

\* EditSetModified(modified)
EditSetModified(t, m) ==
    IF m THEN [t EXCEPT !.modified = TRUE]
    ELSE [t EXCEPT !.modified = FALSE, !.saveEndPos = endPos(t),
                   !.checksum = md5Sum(Get(t, LineChar(1, 0), EndIdx).text)]

\* SetUndo(enabled)
SetUndo(t, enabled) == [t EXCEPT !.undo = enabled]

\* ------------------------------------------------------------------ the state machine
\* lines, marks, undoStack, redoStack, undo, modified, saveEndPos, checksum and
\* mutex are the fields of the TkText. In the sequential specifications one
\* caller uses the buffer, and a panic that leaves the exclusive lock held
\* blocks every later call; prev is the buffer before the last call, last
\* describes that call, nops counts the calls. In the concurrent specification
\* pc, call and loc are each thread's position, call and local variables, and
\* hist the calls each thread has completed, with their results.
\* run remembers the lines from before the first of the edits made since the
\* undo stack was last empty or topped by a separator, while only edits (and
\* calls that touch neither the content nor the stacks) have followed it.
VARIABLES lines, marks, undoStack, redoStack, undo, modified, saveEndPos, checksum,
          mutex, prev, last, nops, run, pc, call, loc, hist

vars == <<lines, marks, undoStack, redoStack, undo, modified, saveEndPos, checksum,
          mutex, prev, last, nops, run, pc, call, loc, hist>>

T == [lines |-> lines, marks |-> marks, undoStack |-> undoStack,
      redoStack |-> redoStack, undo |-> undo, modified |-> modified,
      saveEndPos |-> saveEndPos, checksum |-> checksum]

\* the goroutines that call the buffer; the calls of the sequential
\* specifications are all made by one of them
Threads == {1, 2}

\* sync.RWMutex: how many read locks each thread holds, the thread that holds
\* the write lock (0 for none), and the threads waiting in Lock()
Unlocked == [readers |-> [th \in Threads |-> 0], writer |-> 0, pending |-> {}]
LockedBy(th) == [Unlocked EXCEPT !.writer = th]

\* a thread's call and its local variables
NoConcCall == [op |-> "none", index1 |-> EndIdx, index2 |-> EndIdx, s |-> <<>>]
NoLoc == [start |-> NoPos, end |-> NoPos, b |-> <<>>, front |-> 0, v |-> Separator,
          seen |-> <<>>]

NoCall == [op |-> "New", start |-> NoPos, end |-> NoPos, s |-> <<>>, name |-> <<>>,
           bad |-> FALSE, panic |-> FALSE, ret |-> FALSE, index |-> EndIdx]

NoRun == [open |-> FALSE, base |-> << <<>> >>]

Edits == {"Insert", "Delete", "Replace"}

\* run after the call c has taken the free buffer to r
NextRun(r, c) ==
    IF c.op \in Edits
    THEN IF r.panic THEN NoRun
         ELSE IF r.t.lines = lines /\ r.t.undoStack = undoStack THEN run
         ELSE IF run.open THEN run
         ELSE IF undoStack = <<>> \/ FrontIs(undoStack, "sep")
         THEN [open |-> TRUE, base |-> lines]
         ELSE NoRun
    ELSE IF c.op \in {"MarkSet", "MarkSetGravity"} THEN run
    ELSE NoRun

Init ==
    /\ lines = NewBuffer.lines
    /\ marks = NewBuffer.marks
    /\ undoStack = NewBuffer.undoStack
    /\ redoStack = NewBuffer.redoStack
    /\ undo = NewBuffer.undo
    /\ modified = NewBuffer.modified
    /\ saveEndPos = NewBuffer.saveEndPos
    /\ checksum = NewBuffer.checksum
    /\ mutex = Unlocked
    /\ prev = NewBuffer
    /\ last = NoCall
    /\ nops = 0
    /\ run = NoRun
    /\ pc = [th \in Threads |-> "idle"]
    /\ call = [th \in Threads |-> NoConcCall]
    /\ loc = [th \in Threads |-> NoLoc]
    /\ hist = [th \in Threads |-> <<>>]

ContentLen(t) == Len(Content(t))

\* a call made on a free buffer returned (or panicked) with r, leaving r.t
SetBuffer(t) ==
    /\ lines' = t.lines
    /\ marks' = t.marks
    /\ undoStack' = t.undoStack
    /\ redoStack' = t.redoStack
    /\ undo' = t.undo
    /\ modified' = t.modified
    /\ saveEndPos' = t.saveEndPos
    /\ checksum' = t.checksum

Becomes(r, c) ==
    /\ mutex = Unlocked
    /\ ContentLen(r.t) <= MaxChars
    /\ SetBuffer(r.t)
    /\ mutex' = IF r.held THEN LockedBy(1) ELSE Unlocked
    /\ prev' = T
    /\ last' = [c EXCEPT !.panic = r.panic]
    /\ nops' = nops + 1
    /\ run' = NextRun(r, c)
    /\ UNCHANGED <<pc, call, loc, hist>>

\* whether the index string is malformed whatever the lines hold: a base that
\* is neither line.char, "end" nor a registered mark, or a bad modifier
BadModifier(m) == m.k = "bad" \/ m.unit = "bad"
Malformed(t, idx) ==
    \/ idx.base.k = "lc" /\ idx.base.chk = "bad"
    \/ idx.base.k = "name" /\ idx.base.name \notin DOMAIN t.marks
    \/ \E i \in 1..Len(idx.mods) : BadModifier(idx.mods[i])

\* the position an index resolves to, NoPos when it does not
PosOf(p) == IF p.panic THEN NoPos ELSE p.pos
Resolved(t, idx) == PosOf(Index(t, idx))

DoInsert(index, s) ==
    Becomes(Insert(T, index, s),
            [NoCall EXCEPT !.op = "Insert", !.start = Resolved(T, index), !.s = s,
                           !.bad = Malformed(T, index)])

DoDelete(index1, index2) ==
    Becomes(Delete(T, index1, index2),
            [NoCall EXCEPT !.op = "Delete", !.start = Resolved(T, index1),
                           !.end = Resolved(T, index2),
                           !.bad = Malformed(T, index1) \/ Malformed(T, index2)])

DoReplace(index1, index2, s) ==
    Becomes(Replace(T, index1, index2, s),
            [NoCall EXCEPT !.op = "Replace", !.start = Resolved(T, index1),
                           !.end = Resolved(T, index2), !.s = s,
                           !.bad = Malformed(T, index1) \/ Malformed(T, index2)])

DoMarkSet(name, index) ==
    Becomes(MarkSet(T, name, index),
            [NoCall EXCEPT !.op = "MarkSet", !.start = Resolved(T, index),
                           !.name = name, !.bad = Malformed(T, index)])

DoMarkSetGravity(name, direction) ==
    Becomes(Ok(MarkSetGravity(T, name, direction).t),
            [NoCall EXCEPT !.op = "MarkSetGravity", !.name = name,
                           !.ret = MarkSetGravity(T, name, direction).err])

DoEditUndo ==
    Becomes(EditUndo(T), [NoCall EXCEPT !.op = "EditUndo", !.ret = EditUndo(T).ret])

DoEditRedo ==
    Becomes(EditRedo(T), [NoCall EXCEPT !.op = "EditRedo", !.ret = EditRedo(T).ret])

DoEditSeparator ==
    Becomes(Ok(EditSeparator(T)), [NoCall EXCEPT !.op = "EditSeparator"])

DoEditReset ==
    Becomes(Ok(EditReset(T)), [NoCall EXCEPT !.op = "EditReset"])

\* Index(index), the map of marks enumerated in the order `order`; a panic of
\* Index leaves the buffer as it is and the read lock released
DoIndex(index, order) ==
    Becomes([panic |-> IndexIn(T, index, order).panic, held |-> FALSE, t |-> T],
            [NoCall EXCEPT !.op = "Index", !.name = index.base.name, !.index = index,
                           !.start = PosOf(IndexIn(T, index, order)),
                           !.bad = Malformed(T, index)])

DoSetUndo(enabled) ==
    Becomes(Ok(SetUndo(T, enabled)), [NoCall EXCEPT !.op = "SetUndo"])

\* EditGetModified(): the buffer stays as it is, the call returns last.ret
DoEditGetModified ==
    Becomes(Ok(T), [NoCall EXCEPT !.op = "EditGetModified", !.ret = EditGetModified(T)])

\* EditSetModified(modified); hist[1] keeps the calls made, each with its
\* argument and the content the buffer had when it was made
DoEditSetModified(m) ==
    /\ mutex = Unlocked
    /\ SetBuffer(EditSetModified(T, m))
    /\ mutex' = Unlocked
    /\ prev' = T
    /\ last' = [NoCall EXCEPT !.op = "EditSetModified", !.ret = m]
    /\ nops' = nops + 1
    /\ run' = NoRun
    /\ hist' = [hist EXCEPT ![1] = Append(@, [modified |-> m, content |-> Content(T)])]
    /\ UNCHANGED <<pc, call, loc>>

\* the inputs of the general specification
MarkNameSet == {<<"m">>}
TextSet == {<<>>, <<"a">>, <<"a", NL, "a", "b">>}
IndexSet ==
    {LineChar(1, 0), LineChar(1, 1), LineChar(2, 0), LineChar(2, 1), EndIdx,
     NameIdx(<<"m">>), AddMod(LineChar(1, 0), BadMod), LineBad(2)}
\* Replace is a Delete and an Insert; it is tried on fewer pairs of indices
ReplaceIndexSet == {LineChar(1, 0), LineChar(2, 0), EndIdx, AddMod(EndIdx, BadMod)}

\* the calls still allowed within the bound
Within(n) == nops < n

Next ==
    \/ \E index \in IndexSet, s \in TextSet : Within(MaxOps) /\ DoInsert(index, s)
    \/ \E index1, index2 \in IndexSet : Within(MaxOps) /\ DoDelete(index1, index2)
    \/ \E index1, index2 \in ReplaceIndexSet, s \in TextSet :
          Within(MaxOps) /\ DoReplace(index1, index2, s)
    \/ \E name \in MarkNameSet, index \in IndexSet :
          Within(MaxOps) /\ DoMarkSet(name, index)
    \/ \E name \in MarkNameSet, g \in {Left, Right} :
          Within(MaxOps) /\ DoMarkSetGravity(name, g)
    \/ Within(MaxOps) /\ DoEditUndo
    \/ Within(MaxOps) /\ DoEditRedo
    \/ Within(MaxOps) /\ DoEditSeparator

Spec == Init /\ [][Next]_vars

\* the inputs of the specification of long undo histories: typing at the start
\* of the line and two chars before the end, deleting the first char
DeepIndexSet == {LineChar(1, 0), AddMod(EndIdx, Count("-", 2, "chars"))}
DeepText == <<"a">>

NextDeep ==
    \/ \E index \in DeepIndexSet : Within(MaxDeepOps) /\ DoInsert(index, DeepText)
    \/ Within(MaxDeepOps) /\ DoDelete(LineChar(1, 0), LineChar(1, 1))
    \/ Within(MaxDeepOps) /\ DoEditUndo
    \/ Within(MaxDeepOps) /\ DoEditRedo
    \/ Within(MaxDeepOps) /\ DoEditSeparator
    \/ Within(MaxDeepOps) /\ DoEditReset

SpecDeep == Init /\ [][NextDeep]_vars

\* the inputs of the specification of marks across undo groups: text typed at
\* the start of the buffer before a mark set further along the first line
MarkIndexSet == {LineChar(1, 1), EndIdx}

NextMarks ==
    \/ \E s \in TextSet : Within(MaxMarkOps) /\ DoInsert(LineChar(1, 0), s)
    \/ \E name \in MarkNameSet, index \in MarkIndexSet :
          Within(MaxMarkOps) /\ DoMarkSet(name, index)
    \/ \E name \in MarkNameSet, g \in {Left, Right} :
          Within(MaxMarkOps) /\ DoMarkSetGravity(name, g)
    \/ Within(MaxMarkOps) /\ DoEditSeparator

SpecMarks == Init /\ [][NextMarks]_vars

\* the inputs of the specification of edits at a mark: positions of a two-line
\* buffer and a mark that earlier edits have moved
EditIndexSet == {LineChar(1, 0), LineChar(2, 1), EndIdx, NameIdx(<<"m">>)}
EditTextSet == {<<"a">>, <<"a", "b">>, <<"a", NL, "a", "b">>}

NextEdits ==
    \/ \E index \in EditIndexSet, s \in EditTextSet :
          Within(MaxEditOps) /\ DoInsert(index, s)
    \/ \E index1 \in EditIndexSet, index2 \in EditIndexSet :
          Within(MaxEditOps) /\ DoDelete(index1, index2)
    \/ \E index1 \in EditIndexSet, index2 \in EditIndexSet :
          Within(MaxEditOps) /\ DoReplace(index1, index2, DeepText)
    \/ \E name \in MarkNameSet, index \in EditIndexSet :
          Within(MaxEditOps) /\ DoMarkSet(name, index)

SpecEdits == Init /\ [][NextEdits]_vars

\* the inputs of the specification of the undo switch: edits at the start, at
\* the end and at a mark, with the mechanism switched off and on in between
SwitchIndexSet == {LineChar(1, 0), EndIdx, NameIdx(<<"m">>)}

NextSwitch ==
    \/ \E enabled \in BOOLEAN : Within(MaxSwitchOps) /\ DoSetUndo(enabled)
    \/ \E index \in SwitchIndexSet, s \in EditTextSet :
          Within(MaxSwitchOps) /\ DoInsert(index, s)
    \/ \E index1 \in SwitchIndexSet, index2 \in SwitchIndexSet :
          Within(MaxSwitchOps) /\ DoDelete(index1, index2)
    \/ \E index1 \in SwitchIndexSet, index2 \in SwitchIndexSet :
          Within(MaxSwitchOps) /\ DoReplace(index1, index2, DeepText)
    \/ \E name \in MarkNameSet, index \in SwitchIndexSet :
          Within(MaxSwitchOps) /\ DoMarkSet(name, index)
    \/ Within(MaxSwitchOps) /\ DoEditUndo
    \/ Within(MaxSwitchOps) /\ DoEditRedo

SpecSwitch == Init /\ [][NextSwitch]_vars

\* the inputs of the specification of mark names: two names, one a prefix of
\* the other, and the orders in which a range over the map may enumerate them
PrefixNameSet == {<<"a">>, <<"a", "b">>}
NameIndexSet == {LineChar(1, 0), LineChar(1, 1), EndIdx}

NextNames ==
    \/ \E s \in EditTextSet : Within(MaxNameOps) /\ DoInsert(LineChar(1, 0), s)
    \/ \E name \in PrefixNameSet, index \in NameIndexSet :
          Within(MaxNameOps) /\ DoMarkSet(name, index)
    \/ \E name \in PrefixNameSet, order \in Orders(DOMAIN marks) :
          Within(MaxNameOps) /\ DoIndex(NameIdx(name), order)

SpecNames == Init /\ [][NextNames]_vars

\* the inputs of the specification of Index: buffers of one to three lines,
\* bases in and out of them, and count modifiers of either sign
IndexTextSet == {<<"a", "b">>, <<"a", NL, "a", "b">>, <<NL, "a">>}
ProbeLines == 0..3
ProbeChars == 0..3
ProbeCounts == (0 - 1)..4
BaseProbeSet ==
    {LineChar(l, c) : l \in ProbeLines, c \in ProbeChars}
       \cup {LineEnd(l) : l \in ProbeLines} \cup {EndIdx}
CountProbeSet ==
    {AddMod(LineChar(l, c), Count(sign, n, unit)) :
        l \in 1..2, c \in 0..2, sign \in {"+", "-"}, n \in ProbeCounts,
        unit \in {"chars", "lines"}}

NextIndex ==
    \/ \E index \in {LineChar(1, 0), EndIdx}, s \in IndexTextSet :
          Within(MaxIndexOps) /\ DoInsert(index, s)
    \/ \E index \in BaseProbeSet \cup CountProbeSet :
          Within(MaxIndexOps) /\ DoIndex(index, SeqOfSet(DOMAIN marks))

SpecIndex == Init /\ [][NextIndex]_vars

\* the inputs of the specification of the modified flag: texts of equal length
\* typed at either end, the first character deleted, undo and redo in groups
MaxModOps == 5
ModTextSet == {<<"a">>, <<"b">>, <<"a", NL>>}

NextModified ==
    \/ \E index \in {LineChar(1, 0), EndIdx}, s \in ModTextSet :
          Within(MaxModOps) /\ DoInsert(index, s)
    \/ Within(MaxModOps) /\ DoDelete(LineChar(1, 0), LineChar(1, 1))
    \/ Within(MaxModOps) /\ DoEditUndo
    \/ Within(MaxModOps) /\ DoEditRedo
    \/ Within(MaxModOps) /\ DoEditSeparator
    \/ \E m \in BOOLEAN : Within(MaxModOps) /\ DoEditSetModified(m)
    \/ Within(MaxModOps) /\ DoEditGetModified

SpecModified == Init /\ [][NextModified]_vars

\* ------------------------------------------------------------------ concurrent calls
\* Two threads call one buffer. A step is what a call does between taking the
\* mutex and giving it back; a call of Index (RLock, defer RUnlock) is one step.
ConcText == <<"a", "b">>

\* the buffer the threads share: New(); Insert("1.0", "ab"); EditSetModified(false)
ConcBuffer == EditSetModified(Insert(NewBuffer, LineChar(1, 0), ConcText).t, FALSE)

ConcCallSet ==
    {[op |-> "Insert", index1 |-> LineChar(1, 0), index2 |-> EndIdx, s |-> <<"a">>],
     [op |-> "Delete", index1 |-> LineChar(1, 0), index2 |-> EndIdx, s |-> <<>>],
     [op |-> "Get", index1 |-> LineChar(1, 0), index2 |-> EndIdx, s |-> <<>>],
     [op |-> "EditGetModified", index1 |-> EndIdx, index2 |-> EndIdx, s |-> <<>>]}

InitConc ==
    /\ lines = ConcBuffer.lines
    /\ marks = ConcBuffer.marks
    /\ undoStack = ConcBuffer.undoStack
    /\ redoStack = ConcBuffer.redoStack
    /\ undo = ConcBuffer.undo
    /\ modified = ConcBuffer.modified
    /\ saveEndPos = ConcBuffer.saveEndPos
    /\ checksum = ConcBuffer.checksum
    /\ mutex = Unlocked
    /\ prev = ConcBuffer
    /\ last = NoCall
    /\ nops = 0
    /\ run = NoRun
    /\ pc = [th \in Threads |-> "idle"]
    /\ call = [th \in Threads |-> NoConcCall]
    /\ loc = [th \in Threads |-> NoLoc]
    /\ hist = [th \in Threads |-> <<>>]

bufVars == <<lines, marks, undoStack, redoStack, undo, modified, saveEndPos, checksum>>
seqVars == <<prev, last, nops, run>>

\* RLock() returns when no writer holds the mutex and none waits for it
CanRLock == mutex.writer = 0 /\ mutex.pending = {}

\* Lock() returns to a waiting writer when nobody holds the mutex
CanLock(th) ==
    /\ th \in mutex.pending
    /\ mutex.writer = 0
    /\ \A o \in Threads : mutex.readers[o] = 0

\* a section entered by Lock() that ends with the mutex still held
LeavesLocked(th, panic) ==
    mutex' = [mutex EXCEPT !.pending = @ \ {th}, !.writer = th]

\* the end of a section entered by Lock(): Unlock(), or a panic that skips it
Leaves(th, panic) ==
    mutex' = [mutex EXCEPT !.pending = @ \ {th}, !.writer = IF panic THEN th ELSE 0]

\* an unrecovered panic ends the program
Alive == \A th \in Threads : pc[th] # "panicked"

NoRes == [text |-> <<>>, ret |-> FALSE]

Goto(th, p, l) ==
    /\ pc' = [pc EXCEPT ![th] = p]
    /\ loc' = [loc EXCEPT ![th] = l]
    /\ UNCHANGED <<call, hist>>

Return(th, res) ==
    /\ pc' = [pc EXCEPT ![th] = "idle"]
    /\ loc' = [loc EXCEPT ![th] = NoLoc]
    /\ hist' = [hist EXCEPT ![th] = Append(@, [call |-> call[th], res |-> res])]
    /\ UNCHANGED call

Crash(th) ==
    /\ pc' = [pc EXCEPT ![th] = "panicked"]
    /\ UNCHANGED <<call, loc, hist>>

FirstPc(c) ==
    CASE c.op = "Insert" -> "ins_start"
      [] c.op = "Delete" -> "cmp1"
      [] c.op = "Get" -> "get_start"
      [] c.op = "EditGetModified" -> "egm_enter"
      [] c.op = "CountChars" -> "cc_start"

\* a thread begins the call c; Insert of the empty string returns at once
Call(th, c) ==
    /\ pc[th] = "idle"
    /\ Len(hist[th]) < MaxConcCalls
    /\ call' = [call EXCEPT ![th] = c]
    /\ IF c.op = "Insert" /\ c.s = <<>>
       THEN /\ hist' = [hist EXCEPT ![th] = Append(@, [call |-> c, res |-> NoRes])]
            /\ UNCHANGED pc
       ELSE /\ pc' = [pc EXCEPT ![th] = FirstPc(c)]
            /\ UNCHANGED hist
    /\ UNCHANGED <<bufVars, seqVars, mutex, loc>>

\* Index(idx) called by th outside any section of its own: the position goes to
\* the local variable `field` and the thread on to p
Resolves(th, idx, p, field) ==
    /\ CanRLock
    /\ IF Index(T, idx).panic THEN Crash(th)
       ELSE Goto(th, p, [loc[th] EXCEPT ![field] = Index(T, idx).pos])
    /\ UNCHANGED <<bufVars, seqVars, mutex>>

\* the places where a thread calls Lock()
LockPoints ==
    {"ins_mutate", "ins_record", "ins_rerecord", "ins_clear",
     "del_mutate", "del_record", "del_clear"}

\* Lock() is called: from now on no new reader gets in
WriterWait(th) ==
    /\ pc[th] \in LockPoints
    /\ th \notin mutex.pending
    /\ mutex' = [mutex EXCEPT !.pending = @ \cup {th}]
    /\ UNCHANGED <<bufVars, seqVars, pc, call, loc, hist>>

\* insert: start := t.Index(index)
InsertResolve(th) ==
    /\ pc[th] = "ins_start"
    /\ Resolves(th, call[th].index1, "ins_mutate", "start")

\* insert from Lock to the first Unlock
InsertMutate(th) ==
    /\ pc[th] = "ins_mutate"
    /\ CanLock(th)
    /\ LET r == insertMutate(T, loc[th].start, call[th].s)
       IN /\ SetBuffer(r.t)
          /\ Leaves(th, r.panic)
          /\ IF r.panic THEN Crash(th)
             ELSE Goto(th, IF undo THEN "ins_end" ELSE "ins_clear", loc[th])
    /\ UNCHANGED seqVars

\* insert: end := t.Index(start +len(s)c)
InsertEnd(th) ==
    /\ pc[th] = "ins_end"
    /\ Resolves(th, PlusChars(String(loc[th].start), Len(call[th].s)), "ins_record", "end")

\* insert looks at the front of the undo stack under the lock: it merges, pushes,
\* or unlocks to resolve the end again, keeping the front element
InsertRecord(th) ==
    /\ pc[th] = "ins_record"
    /\ CanLock(th)
    /\ IF FrontIs(undoStack, "insert") /\ undoStack[1].ep = String(loc[th].start)
       THEN /\ undoStack' = [undoStack EXCEPT ![1] =
                               InsertOp(@.sp, String(loc[th].end), @.s \o call[th].s)]
            /\ Goto(th, "ins_clear", loc[th])
       ELSE IF FrontIs(undoStack, "insert") /\ undoStack[1].sp = String(loc[th].start)
       THEN /\ UNCHANGED undoStack
            /\ Goto(th, "ins_reindex",
                    [loc[th] EXCEPT !.front = Len(undoStack), !.v = undoStack[1]])
       ELSE /\ undoStack' = PushFront(undoStack,
                               InsertOp(String(loc[th].start), String(loc[th].end),
                                        call[th].s))
            /\ Goto(th, "ins_clear", loc[th])
    /\ Leaves(th, FALSE)
    /\ UNCHANGED <<lines, marks, redoStack, undo, modified, saveEndPos, checksum, seqVars>>

\* insert: end = t.Index(index +len(s+v.s)c), with the mutex released
InsertReindex(th) ==
    /\ pc[th] = "ins_reindex"
    /\ Resolves(th, PlusChars(call[th].index1, Len(call[th].s \o loc[th].v.s)),
                "ins_rerecord", "end")

\* insert writes the merged entry into the element it kept, wherever that
\* element now is in the list (loc.front counts it from the back)
InsertRerecord(th) ==
    /\ pc[th] = "ins_rerecord"
    /\ CanLock(th)
    /\ undoStack' =
          IF loc[th].front <= Len(undoStack)
          THEN [undoStack EXCEPT ![Len(undoStack) - loc[th].front + 1] =
                  InsertOp(String(loc[th].start), String(loc[th].end),
                           call[th].s \o loc[th].v.s)]
          ELSE undoStack
    /\ Goto(th, "ins_clear", loc[th])
    /\ Leaves(th, FALSE)
    /\ UNCHANGED <<lines, marks, redoStack, undo, modified, saveEndPos, checksum, seqVars>>

\* Insert and Delete: t.redoStack.Init() under the lock, and the call returns
ClearRedo(th) ==
    /\ pc[th] \in {"ins_clear", "del_clear"}
    /\ CanLock(th)
    /\ redoStack' = <<>>
    /\ Return(th, NoRes)
    /\ Leaves(th, FALSE)
    /\ UNCHANGED <<lines, marks, undoStack, undo, modified, saveEndPos, checksum, seqVars>>

\* Delete: t.Compare(index1, index2) < 0, two calls of Index
DeleteCompare(th) ==
    \/ /\ pc[th] = "cmp1"
       /\ Resolves(th, call[th].index1, "cmp2", "start")
    \/ /\ pc[th] = "cmp2"
       /\ CanRLock
       /\ IF Index(T, call[th].index2).panic THEN Crash(th)
          ELSE IF comparePos(loc[th].start, Index(T, call[th].index2).pos) < 0
          THEN Goto(th, "del_start", loc[th])
          ELSE Return(th, NoRes)
       /\ UNCHANGED <<bufVars, seqVars, mutex>>

\* del: start := t.Index(startIndex); end := t.Index(endIndex)
DeleteResolve(th) ==
    \/ /\ pc[th] = "del_start"
       /\ Resolves(th, call[th].index1, "del_end", "start")
    \/ /\ pc[th] = "del_end"
       /\ Resolves(th, call[th].index2, "del_mutate", "end")

\* del from Lock to the first Unlock
DeleteMutate(th) ==
    /\ pc[th] = "del_mutate"
    /\ CanLock(th)
    /\ LET r == delMutate(T, loc[th].start, loc[th].end)
       IN /\ SetBuffer(r.t)
          /\ Leaves(th, r.panic)
          /\ IF r.panic THEN Crash(th)
             ELSE Goto(th, IF undo THEN "del_record" ELSE "del_clear",
                       [loc[th] EXCEPT !.b = r.b])
    /\ UNCHANGED seqVars

\* del's undo record, under the lock
DeleteRecord(th) ==
    /\ pc[th] = "del_record"
    /\ CanLock(th)
    /\ SetBuffer(delRecord(T, loc[th].start, loc[th].end, loc[th].b))
    /\ Goto(th, "del_clear", loc[th])
    /\ Leaves(th, FALSE)
    /\ UNCHANGED seqVars

\* Get: start, end := t.Index(index1), t.Index(index2)
GetResolve(th) ==
    \/ /\ pc[th] = "get_start"
       /\ Resolves(th, call[th].index1, "get_end", "start")
    \/ /\ pc[th] = "get_end"
       /\ CanRLock
       /\ IF Index(T, call[th].index2).panic THEN Crash(th)
          ELSE IF comparePos(loc[th].start, Index(T, call[th].index2).pos) >= 0
          THEN Return(th, NoRes)
          ELSE Goto(th, "get_read", [loc[th] EXCEPT !.end = Index(T, call[th].index2).pos])
       /\ UNCHANGED <<bufVars, seqVars, mutex>>

\* Get reads the lines under RLock (defer RUnlock)
GetRead(th) ==
    /\ pc[th] = "get_read"
    /\ CanRLock
    /\ LET r == getRange(T, loc[th].start, loc[th].end)
       IN IF r.panic THEN Crash(th) ELSE Return(th, [NoRes EXCEPT !.text = r.text])
    /\ UNCHANGED <<bufVars, seqVars, mutex>>

\* th gives back one read lock
RUnlock(th) == mutex' = [mutex EXCEPT !.readers[th] = @ - 1]

\* EditGetModified takes the read lock and keeps it unless it returns early
ModifiedEnter(th) ==
    /\ pc[th] = "egm_enter"
    /\ CanRLock
    /\ IF modified \/ endPos(T) # saveEndPos
       THEN Return(th, [NoRes EXCEPT !.ret = TRUE]) /\ UNCHANGED mutex
       ELSE /\ Goto(th, "egm_start", loc[th])
            /\ mutex' = [mutex EXCEPT !.readers[th] = @ + 1]
    /\ UNCHANGED <<bufVars, seqVars>>

\* EditGetModified's t.Get("1.0", "end"): the two calls of Index, each taking
\* the read lock again
ModifiedResolve(th) ==
    \/ /\ pc[th] = "egm_start"
       /\ Resolves(th, LineChar(1, 0), "egm_end", "start")
    \/ /\ pc[th] = "egm_end"
       /\ CanRLock
       /\ IF comparePos(loc[th].start, Index(T, EndIdx).pos) >= 0
          THEN Return(th, [NoRes EXCEPT !.ret = checksum # md5Sum(<<>>)]) /\ RUnlock(th)
          ELSE /\ Goto(th, "egm_read", [loc[th] EXCEPT !.end = Index(T, EndIdx).pos])
               /\ UNCHANGED mutex
       /\ UNCHANGED <<bufVars, seqVars>>

\* EditGetModified's t.Get reads the lines, taking the read lock a third time,
\* and the digests are compared; the deferred RUnlock runs
ModifiedRead(th) ==
    /\ pc[th] = "egm_read"
    /\ CanRLock
    /\ LET r == getRange(T, loc[th].start, loc[th].end)
       IN IF r.panic THEN Crash(th)
          ELSE Return(th, [NoRes EXCEPT !.ret = checksum # md5Sum(r.text)])
    /\ RUnlock(th)
    /\ UNCHANGED <<bufVars, seqVars>>

\* CountChars: pos1, pos2 := t.Index(index1), t.Index(index2)
CountResolve(th) ==
    \/ /\ pc[th] = "cc_start"
       /\ Resolves(th, call[th].index1, "cc_end", "start")
    \/ /\ pc[th] = "cc_end"
       /\ Resolves(th, call[th].index2, "cc_line", "end")

\* the earlier and the later of the two positions CountChars resolved
countFirst(l) == IF comparePos(l.start, l.end) > 0 THEN l.end ELSE l.start
countLast(l) == IF comparePos(l.start, l.end) > 0 THEN l.start ELSE l.end

\* what CountChars returns for the positions l.start and l.end on the lines ls
countOn(ls, l) ==
    countPositions([lines |-> ls], [panic |-> FALSE, pos |-> l.start],
                   [panic |-> FALSE, pos |-> l.end])

\* CountChars: line := t.getLine(pos1.Line), a walk from the front of the
\* list made without the mutex; loc.seen is the list the walk went through
CountLine(th) ==
    /\ pc[th] = "cc_line"
    /\ IF countFirst(loc[th]).Line > Len(lines) + 1 THEN Crash(th)
       ELSE Goto(th, "cc_walk", [loc[th] EXCEPT !.seen = lines])
    /\ UNCHANGED <<bufVars, seqVars, mutex>>

\* CountChars: the loop over line.Value and line.Next(), made without the
\* mutex. When the list was written to since getLine, the elements the loop
\* goes through are those of the old list or of the new one, or the loop
\* reaches a nil element and panics
CountWalk(th) ==
    /\ pc[th] = "cc_walk"
    /\ \E ls \in {loc[th].seen, lines} :
          \/ /\ ~countOn(ls, loc[th]).panic
             /\ Return(th, NoRes @@ [n |-> countOn(ls, loc[th]).n])
          \/ /\ countOn(ls, loc[th]).panic \/ loc[th].seen # lines
             /\ Crash(th)
    /\ UNCHANGED <<bufVars, seqVars, mutex>>

NextConc ==
    \/ \E th \in Threads, c \in ConcCallSet : Alive /\ Call(th, c)
    \/ \E th \in Threads : Alive /\ WriterWait(th)
    \/ \E th \in Threads : Alive /\ InsertResolve(th)
    \/ \E th \in Threads : Alive /\ InsertMutate(th)
    \/ \E th \in Threads : Alive /\ InsertEnd(th)
    \/ \E th \in Threads : Alive /\ InsertRecord(th)
    \/ \E th \in Threads : Alive /\ InsertReindex(th)
    \/ \E th \in Threads : Alive /\ InsertRerecord(th)
    \/ \E th \in Threads : Alive /\ ClearRedo(th)
    \/ \E th \in Threads : Alive /\ DeleteCompare(th)
    \/ \E th \in Threads : Alive /\ DeleteResolve(th)
    \/ \E th \in Threads : Alive /\ DeleteMutate(th)
    \/ \E th \in Threads : Alive /\ DeleteRecord(th)
    \/ \E th \in Threads : Alive /\ GetResolve(th)
    \/ \E th \in Threads : Alive /\ GetRead(th)
    \/ \E th \in Threads : Alive /\ ModifiedEnter(th)
    \/ \E th \in Threads : Alive /\ ModifiedResolve(th)
    \/ \E th \in Threads : Alive /\ ModifiedRead(th)

SpecConc == InitConc /\ [][NextConc]_vars

\* the inputs of the specification of unlocked reads: a buffer of two lines, a
\* thread that counts its characters and a thread that deletes its first line
RaceBuffer == Insert(NewBuffer, LineChar(1, 0), <<"a", NL, "a", "b">>).t

RaceCallSet ==
    {[op |-> "Delete", index1 |-> LineChar(1, 0), index2 |-> LineChar(2, 0), s |-> <<>>],
     [op |-> "Delete", index1 |-> LineChar(1, 0), index2 |-> LineChar(1, 1), s |-> <<>>],
     [op |-> "CountChars", index1 |-> LineChar(1, 0), index2 |-> EndIdx, s |-> <<>>],
     [op |-> "CountChars", index1 |-> EndIdx, index2 |-> LineChar(1, 1), s |-> <<>>]}

InitRace ==
    /\ lines = RaceBuffer.lines
    /\ marks = RaceBuffer.marks
    /\ undoStack = RaceBuffer.undoStack
    /\ redoStack = RaceBuffer.redoStack
    /\ undo = RaceBuffer.undo
    /\ modified = RaceBuffer.modified
    /\ saveEndPos = RaceBuffer.saveEndPos
    /\ checksum = RaceBuffer.checksum
    /\ mutex = Unlocked
    /\ prev = RaceBuffer
    /\ last = NoCall
    /\ nops = 0
    /\ run = NoRun
    /\ pc = [th \in Threads |-> "idle"]
    /\ call = [th \in Threads |-> NoConcCall]
    /\ loc = [th \in Threads |-> NoLoc]
    /\ hist = [th \in Threads |-> <<>>]

NextRace ==
    \/ \E th \in Threads, c \in RaceCallSet : Alive /\ Call(th, c)
    \/ \E th \in Threads : Alive /\ WriterWait(th)
    \/ \E th \in Threads : Alive /\ ClearRedo(th)
    \/ \E th \in Threads : Alive /\ DeleteCompare(th)
    \/ \E th \in Threads : Alive /\ DeleteResolve(th)
    \/ \E th \in Threads : Alive /\ DeleteMutate(th)
    \/ \E th \in Threads : Alive /\ DeleteRecord(th)
    \/ \E th \in Threads : Alive /\ CountResolve(th)
    \/ \E th \in Threads : Alive /\ CountLine(th)
    \/ \E th \in Threads : Alive /\ CountWalk(th)

SpecRace == InitRace /\ [][NextRace]_vars

\* ------------------------------------------------------------------ claims
\* a position of the buffer: an existing line and a char within it
InRange(t, p) ==
    /\ 1 <= p.Line /\ p.Line <= Len(t.lines)
    /\ 0 <= p.Char /\ p.Char <= Len(t.lines[p.Line])

\* the last call was a public edit that returned and changed the content
EffectiveEdit == last.op \in Edits /\ ~last.panic /\ lines # prev.lines

\* C1: every mark's stored position, and every position Index returns for a
\* well-formed index, is an existing line and a char offset within that line.
C1_PositionsInRange ==
    /\ \A n \in DOMAIN marks : InRange(T, marks[n])
    /\ \A idx \in IndexSet : ~Index(T, idx).panic => InRange(T, Index(T, idx).pos)

\* the text from mark n to the end of the buffer
FromMark(t, n) == Get(t, NameIdx(n), EndIdx)

\* C2: a Delete(S,E) that ends at or before a mark, and an Insert(P,s) before a
\* mark, leave the text from the mark to the end of the buffer as it was.
C2_MarkKeepsPlace ==
    \A n \in DOMAIN prev.marks :
       /\ (last.op = "Delete" /\ EffectiveEdit /\ comparePos(last.end, prev.marks[n]) <= 0)
             => FromMark(T, n) = FromMark(prev, n)
       /\ (last.op = "Insert" /\ EffectiveEdit /\ comparePos(last.start, prev.marks[n]) < 0)
             => FromMark(T, n) = FromMark(prev, n)

\* the buffer after EditUndo() and then EditRedo()
UndoThenRedo(t) == EditRedo(EditUndo(t).t)

\* the undo stack before the last call was at a boundary, so that an EditUndo()
\* after the call undoes that call and nothing more
AtBoundary == prev.undoStack = <<>> \/ FrontIs(prev.undoStack, "sep")

\* C5: Insert, then EditUndo(), then EditRedo() gives the content and the mark
\* positions that the Insert left (stated for an Insert that EditUndo() undoes
\* alone, whatever marks of either gravity the buffer holds).
C5_InsertUndoRedo ==
    (last.op = "Insert" /\ EffectiveEdit /\ AtBoundary /\ mutex = Unlocked)
       => /\ UndoThenRedo(T).t.lines = lines
          /\ UndoThenRedo(T).t.marks = marks

RECURSIVE Reverse(_)
Reverse(q) == IF q = <<>> THEN <<>> ELSE Reverse(Tail(q)) \o <<Head(q)>>

\* the entries of both stacks, oldest first on the undo side
Log(t) == Reverse(t.undoStack) \o t.redoStack

\* C7: an effective Insert, Delete or Replace leaves RedoStack empty, so that
\* EditRedo() then returns false and changes nothing; EditUndo and EditRedo only
\* move entries between the stacks, clearing and recording nothing.
C7_RedoEmptyAfterEdit ==
    /\ EffectiveEdit
          => /\ redoStack = <<>>
             /\ ~EditRedo(T).ret
             /\ EditRedo(T).t = T
    /\ (last.op \in {"EditUndo", "EditRedo"} /\ ~last.panic) => Log(T) = Log(prev)

\* an effective edit made while RedoStack held entries
C7_Witness == EffectiveEdit /\ prev.redoStack # <<>> /\ redoStack = <<>>

\* C8: a call with a malformed index panics and leaves the lines, the marks and
\* both stacks as they were.
C8_MalformedPanicsUnchanged ==
    last.bad => (last.panic /\ T = prev)

\* C3: after a run of effective Insert/Delete/Replace calls with no
\* EditSeparator between them, begun at a boundary of the undo history, one
\* EditUndo() restores the content the buffer had before the first call of the run.
C3_UndoRestoresRun ==
    (run.open /\ mutex = Unlocked) => Content(EditUndo(T).t) = Join(run.base)

\* C4: when EditUndo() undoes something, an EditRedo() right after it gives back
\* the content the buffer had before the EditUndo().
C4_RedoInvertsUndo ==
    (mutex = Unlocked /\ EditUndo(T).ret) => Content(UndoThenRedo(T).t) = Content(T)

\* the entries a call took off the front of a stack
Taken(before, after) == SubSeq(before, 1, Len(before) - Len(after))
HasEdit(entries) == \E i \in 1..Len(entries) : entries[i].k # "sep"

\* C6: EditUndo() returns true exactly when it inverted an Insert or Delete
\* entry, and EditRedo() returns true exactly when it re-applied one, whatever
\* separators the stacks hold.
C6_ReturnsWhetherChanged ==
    /\ (last.op = "EditUndo" /\ ~last.panic)
          => (last.ret <=> HasEdit(Taken(prev.undoStack, undoStack)))
    /\ (last.op = "EditRedo" /\ ~last.panic)
          => (last.ret <=> HasEdit(Taken(prev.redoStack, redoStack)))

\* the buffer after the call c made alone, and what the call returns
Alone(t, c) ==
    CASE c.op = "Insert" -> Insert(t, c.index1, c.s).t
      [] c.op = "Delete" -> Delete(t, c.index1, c.index2).t
      [] OTHER -> t
AloneRes(t, c) ==
    CASE c.op = "Get" -> [NoRes EXCEPT !.text = Get(t, c.index1, c.index2).text]
      [] c.op = "EditGetModified" -> [NoRes EXCEPT !.ret = EditGetModified(t)]
      [] OTHER -> NoRes

RECURSIVE Serial(_, _, _)
\* some order of the completed calls h1 and h2, made one after the other from
\* t, gives every result they returned and the present content
Serial(t, h1, h2) ==
    IF h1 = <<>> /\ h2 = <<>> THEN Content(t) = Content(T)
    ELSE \/ /\ h1 # <<>>
            /\ AloneRes(t, Head(h1).call) = Head(h1).res
            /\ Serial(Alone(t, Head(h1).call), Tail(h1), h2)
         \/ /\ h2 # <<>>
            /\ AloneRes(t, Head(h2).call) = Head(h2).res
            /\ Serial(Alone(t, Head(h2).call), h1, Tail(h2))

\* C9: when two threads call Insert, Delete and Get with well-formed indices,
\* no call panics, and once the calls have returned the content and the results
\* are those of some serial order of the calls.
C9_ThreadSafe ==
    /\ \A th \in Threads : pc[th] # "panicked"
    /\ (\A th \in Threads : pc[th] = "idle") => Serial(ConcBuffer, hist[1], hist[2])

\* C10: a reader that holds the read lock and asks for it again is never left
\* waiting for a writer that waits for that reader.
C10_NoMutualWait ==
    ~ \E r, w \in Threads :
         /\ r # w
         /\ mutex.readers[r] > 0
         /\ pc[r] \in {"egm_start", "egm_end", "egm_read"}
         /\ w \in mutex.pending

\* the position of a mark, without its gravity
MarkPos(m) == Pos(m.Line, m.Char)

\* the last call was an Insert that returned and changed the content
EffectiveInsert == last.op = "Insert" /\ EffectiveEdit

\* C11: a mark exactly at the insertion point of an Insert stays there when its
\* gravity is Left, and ends right after the inserted text, at
\* Index(P +len(s) chars), when its gravity is Right.
C11_GravityAtInsertionPoint ==
    EffectiveInsert =>
       \A n \in DOMAIN prev.marks :
          MarkPos(prev.marks[n]) = last.start =>
             /\ prev.marks[n].gravity = Left => MarkPos(marks[n]) = last.start
             /\ prev.marks[n].gravity = Right =>
                   MarkPos(marks[n]) =
                      Index(T, PlusChars(String(last.start), Len(last.s))).pos

\* the last call was a Delete that returned and changed the content
EffectiveDelete == last.op = "Delete" /\ EffectiveEdit

\* C12: after an effective Delete(S, E) every mark that was in S..E (bounds
\* included) is at S, and every mark that was strictly before S is unchanged.
C12_DeleteCollapsesMarks ==
    EffectiveDelete =>
       \A n \in DOMAIN prev.marks :
          LET m == MarkPos(prev.marks[n]) IN
          /\ (comparePos(last.start, m) <= 0 /\ comparePos(m, last.end) <= 0)
                => MarkPos(marks[n]) = last.start
          /\ comparePos(m, last.start) < 0 => marks[n] = prev.marks[n]

\* a Delete has moved a mark from inside the deleted range back to its start
C12_Witness ==
    /\ EffectiveDelete
    /\ \E n \in DOMAIN prev.marks :
          /\ comparePos(last.start, MarkPos(prev.marks[n])) < 0
          /\ comparePos(MarkPos(prev.marks[n]), last.end) <= 0
          /\ MarkPos(marks[n]) = last.start

\* the number of line breaks of the text s
Breaks(s) == Len(Split(s)) - 1

\* the length of the text after the last line break of s
LastSegment(s) == Len(Split(s)[Len(Split(s))])

\* C13: an Insert(P, s) with k line breaks moves every mark strictly after P down
\* by k lines; on P's line its char becomes char + len(s) (k = 0) or
\* char - P.char + length of the last segment of s (k > 0), on a later line the
\* char stays; marks strictly before P are unchanged.
C13_InsertShiftsLaterMarks ==
    EffectiveInsert =>
       \A n \in DOMAIN prev.marks :
          LET m == prev.marks[n]
              P == last.start
              k == Breaks(last.s)
          IN /\ comparePos(P, MarkPos(m)) < 0 =>
                   /\ marks[n].Line = m.Line + k
                   /\ marks[n].Char =
                         IF m.Line # P.Line THEN m.Char
                         ELSE IF k = 0 THEN m.Char + Len(last.s)
                         ELSE m.Char - P.Char + LastSegment(last.s)
             /\ comparePos(MarkPos(m), P) < 0 => marks[n] = m

\* a multi-line Insert has moved a mark that was after P on P's line
C13_Witness ==
    /\ EffectiveInsert
    /\ Breaks(last.s) > 0
    /\ \E n \in DOMAIN prev.marks :
          /\ prev.marks[n].Line = last.start.Line
          /\ prev.marks[n].Char > last.start.Char
          /\ marks[n].Line = prev.marks[n].Line + Breaks(last.s)

\* Get("1.0", "end"): the content with line breaks as separators
Whole(t) == Get(t, LineChar(1, 0), EndIdx).text

\* the content of t before and from the position p
Before(t, p) == Get(t, LineChar(1, 0), String(p)).text
From(t, p) == Get(t, String(p), EndIdx).text

\* C14: Insert(index, s) with a non-empty s and an index that resolves to P
\* makes the content (content before P) + s + (content from P on).
C14_InsertSplicesContent ==
    (last.op = "Insert" /\ last.s # <<>> /\ last.start # NoPos) =>
       /\ ~last.panic
       /\ Whole(T) = Before(prev, last.start) \o last.s \o From(prev, last.start)

\* the last call was a Delete(i1, i2) with S = Index(i1) < E = Index(i2)
DeleteOfRange ==
    /\ last.op = "Delete"
    /\ last.start # NoPos /\ last.end # NoPos
    /\ comparePos(last.start, last.end) < 0

\* the text b is what the last call wrote to the front of the undo log: a new
\* deleteOp, or a merge into the deleteOp that was in front
RecordedDelete(b) ==
    /\ FrontIs(undoStack, "delete")
    /\ \/ /\ Len(undoStack) = Len(prev.undoStack) + 1
          /\ undoStack[1].s = b
       \/ /\ Len(undoStack) = Len(prev.undoStack)
          /\ FrontIs(prev.undoStack, "delete")
          /\ undoStack[1].s \in {prev.undoStack[1].s \o b, b \o prev.undoStack[1].s}

\* C15: Delete(i1, i2) with S = Index(i1) < E = Index(i2) makes the content
\* (content before S) + (content from E on), S's line and E's line becoming one
\* line, and records for undo the text Get(S, E) of before the call.
C15_DeleteCutsContent ==
    DeleteOfRange =>
       /\ ~last.panic
       /\ Whole(T) = Before(prev, last.start) \o From(prev, last.end)
       /\ Len(lines) = Len(prev.lines) - (last.end.Line - last.start.Line)
       /\ prev.undo =>
             RecordedDelete(Get(prev, String(last.start), String(last.end)).text)

\* the later of two positions
MaxPos(p, q) == IF comparePos(p, q) >= 0 THEN p ELSE q

\* C16: Replace(i1, i2, s) resolves i1 to P1 against the buffer of before the
\* call, and makes the content (content before P1) + s + (content from
\* max(P1, Index(i2)) on); with i1 at or after i2 it is an insertion of s at P1.
C16_ReplaceSplicesContent ==
    (last.op = "Replace" /\ last.start # NoPos /\ last.end # NoPos) =>
       /\ ~last.panic
       /\ Whole(T) = Before(prev, last.start) \o last.s
                        \o From(prev, MaxPos(last.start, last.end))

\* the last call was an Insert(P, s) at a valid position P of a non-empty s
\* that has no line break
InsertInLine ==
    /\ last.op = "Insert" /\ last.s # <<>> /\ Breaks(last.s) = 0
    /\ last.start # NoPos /\ InRange(prev, last.start)

\* Delete(P, "P +len(s) chars") called after the last call, an Insert(P, s)
DeleteInserted ==
    Delete(T, String(last.start), PlusChars(String(last.start), Len(last.s)))

\* C17: at a valid position P, Insert(P, s) of a non-empty s without line
\* breaks followed by Delete(P, "P +len(s) chars") restores the content.
C17_InsertThenDeleteRestores ==
    InsertInLine =>
       /\ ~last.panic
       /\ ~DeleteInserted.panic
       /\ Whole(DeleteInserted.t) = Whole(prev)
       /\ DeleteInserted.t.lines = prev.lines

\* an Insert of two chars in the middle of a buffer changed it and the Delete
\* restores it
C17_Witness ==
    /\ InsertInLine
    /\ Len(last.s) > 1
    /\ last.start # Pos(1, 0)
    /\ lines # prev.lines
    /\ DeleteInserted.t.lines = prev.lines

\* the lines, the marks and the two stacks are as they were before the last call
SameBuffer ==
    /\ lines = prev.lines
    /\ marks = prev.marks
    /\ undoStack = prev.undoStack
    /\ redoStack = prev.redoStack

\* the last call was a Delete, or a Replace of "", whose first index resolves
\* at or after its second
DegenerateRange(op) ==
    /\ last.op = op
    /\ last.start # NoPos /\ last.end # NoPos
    /\ comparePos(last.start, last.end) >= 0

\* C18: Insert(index, ""), Delete(i1, i2) with Index(i1) >= Index(i2) and
\* Replace(i, i, "") leave the lines, the marks, UndoStack and RedoStack as
\* they were.
C18_DegenerateEditsChangeNothing ==
    /\ (last.op = "Insert" /\ last.s = <<>>) => SameBuffer
    /\ DegenerateRange("Delete") => SameBuffer
    /\ (DegenerateRange("Replace") /\ last.s = <<>>) => SameBuffer

\* a Delete whose first index is after its second returned on a buffer with
\* a mark and an entry on UndoStack
C18_Witness ==
    /\ DegenerateRange("Delete")
    /\ comparePos(last.start, last.end) > 0
    /\ ~last.panic
    /\ DOMAIN marks # {}
    /\ undoStack # <<>>

\* NumLines(): the number of lines of the buffer
NumLines(t) == Len(t.lines)

\* the number of line break characters of the text s
CountBreaks(s) == Cardinality({i \in 1..Len(s) : s[i] = NL})

\* C19: the buffer always has at least one line, and one line more than its
\* content Get("1.0", "end") has line breaks; a new buffer has one empty line,
\* no marks and empty stacks.
C19_LineCount ==
    /\ NumLines(T) >= 1
    /\ ~Get(T, LineChar(1, 0), EndIdx).panic
    /\ NumLines(T) = 1 + CountBreaks(Whole(T))
    /\ last.op = "New" =>
          /\ lines = << <<>> >>
          /\ DOMAIN marks = {}
          /\ undoStack = <<>> /\ redoStack = <<>>

\* an Insert of a text with a line break has added a line
C19_Witness ==
    /\ EffectiveInsert
    /\ CountBreaks(last.s) > 0
    /\ NumLines(T) = NumLines(prev) + 1

\* the index p.String() of the position the index idx resolves to resolves to
\* that position again
RoundTrip(t, idx) ==
    LET p == Index(t, idx)
    IN ~p.panic => Index(t, String(p.pos)) = p

\* C20: for every position p that Index returns, Index(p.String()) = p.
C20_StringRoundTrip == \A idx \in IndexSet \cup DeepIndexSet : RoundTrip(T, idx)

\* the buffer t with the undo mechanism enabled
Enabled(t) == [t EXCEPT !.undo = TRUE]

\* the calls off and on end alike (both panic or both return) with the same
\* lines and marks, and off leaves the UndoStack of t
SameEdit(t, off, on) ==
    /\ off.panic = on.panic
    /\ off.t.lines = on.t.lines
    /\ off.t.marks = on.t.marks
    /\ off.t.undoStack = t.undoStack

\* every edit of the buffer t, the undo mechanism disabled, does to the lines
\* and marks what it does with the mechanism enabled
EditsAsEnabled(t) ==
    /\ \A index \in SwitchIndexSet, s \in EditTextSet :
          SameEdit(t, Insert(t, index, s), Insert(Enabled(t), index, s))
    /\ \A index1 \in SwitchIndexSet, index2 \in SwitchIndexSet :
          /\ SameEdit(t, Delete(t, index1, index2), Delete(Enabled(t), index1, index2))
          /\ SameEdit(t, Replace(t, index1, index2, DeepText),
                      Replace(Enabled(t), index1, index2, DeepText))

\* C21: with the undo mechanism disabled Insert, Delete and Replace change the
\* content and the marks as when it is enabled and leave UndoStack unchanged,
\* and EditUndo and EditRedo return false and change neither the content, the
\* marks nor the stacks.
C21_UndoDisabled ==
    /\ ~undo => EditsAsEnabled(T)
    /\ (~prev.undo /\ last.op \in Edits) => undoStack = prev.undoStack
    /\ (~prev.undo /\ last.op \in {"EditUndo", "EditRedo"}) =>
          ~last.ret /\ ~last.panic /\ SameBuffer

\* an edit changed the content of a buffer whose undo mechanism is disabled
\* and whose UndoStack has an entry
C21_Witness ==
    /\ ~prev.undo /\ EffectiveEdit
    /\ prev.undoStack # <<>>
    /\ undoStack = prev.undoStack

\* C22: EditSeparator leaves UndoStack as it is when it is empty or has a
\* separator on top and pushes one separator otherwise; it changes neither the
\* content, the marks nor RedoStack; on a new buffer EditUndo after it returns
\* false.
C22_SeparatorPush ==
    last.op = "EditSeparator" =>
       /\ ~last.panic
       /\ lines = prev.lines /\ marks = prev.marks /\ redoStack = prev.redoStack
       /\ undoStack = IF prev.undoStack = <<>> \/ FrontIs(prev.undoStack, "sep")
                      THEN prev.undoStack
                      ELSE <<Separator>> \o prev.undoStack
       /\ nops = 1 => ~EditUndo(T).ret /\ EditUndo(T).t = T

\* EditSeparator has pushed a separator on a buffer with redoable changes
C22_Witness ==
    /\ last.op = "EditSeparator"
    /\ Len(undoStack) = Len(prev.undoStack) + 1
    /\ redoStack # <<>>

\* MarkSetGravity(name, g) and MarkGetGravity(name) on the buffer t: an error
\* and no change exactly when the mark is not set, otherwise only the gravity
\* of that mark changes and MarkGetGravity returns it
GravityCalls(t, name, g) ==
    LET r == MarkSetGravity(t, name, g)
    IN /\ r.err = (name \notin DOMAIN t.marks)
       /\ MarkGetGravity(t, name).err = (name \notin DOMAIN t.marks)
       /\ r.err => r.t = t
       /\ ~r.err =>
             /\ r.t = [t EXCEPT !.marks = r.t.marks]
             /\ DOMAIN r.t.marks = DOMAIN t.marks
             /\ \A n \in DOMAIN t.marks :
                   /\ MarkPos(r.t.marks[n]) = MarkPos(t.marks[n])
                   /\ n # name => r.t.marks[n] = t.marks[n]
             /\ MarkGetGravity(r.t, name) = [err |-> FALSE, gravity |-> g]

\* C23: MarkGetGravity and MarkSetGravity return an error and change nothing
\* exactly when the mark is not set; otherwise MarkSetGravity changes only the
\* gravity of that mark, and MarkGetGravity returns the gravity last set:
\* Right for a mark whose gravity was never set, and no other call changes it.
C23_GravityLastSet ==
    /\ \A name \in MarkNameSet, g \in {Left, Right} : GravityCalls(T, name, g)
    /\ last.op = "MarkSetGravity" => last.ret = (last.name \notin DOMAIN prev.marks)
    /\ last.op # "MarkSetGravity" =>
          \A n \in DOMAIN marks :
             MarkGetGravity(T, n).gravity =
                IF n \in DOMAIN prev.marks THEN MarkGetGravity(prev, n).gravity
                ELSE Right

\* C24: when several mark names are prefixes of an index, Index resolves the
\* base to the longest of them, whatever the order in which the marks are
\* enumerated: with marks "a" and "ab" set, Index("ab") is the position of "ab".
C24_LongestMarkName ==
    (last.op = "Index" /\ last.name \in DOMAIN marks) =>
       /\ ~last.panic
       /\ last.start = MarkPos(marks[last.name])

\* the last call was Index(index) of an index without modifiers whose base is
\* "<line>.<char>", "<line>.end" or "end"
IndexOfBase ==
    /\ last.op = "Index"
    /\ last.index.mods = <<>>
    /\ last.index.base.k \in {"lc", "end"}
    /\ last.index.base.chk \in {"num", "end"}

\* the last line of the buffer t and its length, as a position
LastPos(t) == Pos(NumLines(t), Len(t.lines[NumLines(t)]))

\* C25: a base "<line>.<char>" with a line below 1 resolves to (1,0), with a
\* line above the line count to the end of the last line, with a char above the
\* length of its line to that length; "<line>.end" resolves to the line's
\* length and "end" to the end of the last line; none of them is an error.
C25_BaseClamping ==
    IndexOfBase =>
       LET b == last.index.base IN
       /\ ~last.panic
       /\ b.k = "end" => last.start = LastPos(T)
       /\ (b.k = "lc" /\ b.line < 1) => last.start = Pos(1, 0)
       /\ (b.k = "lc" /\ b.line > NumLines(T)) => last.start = LastPos(T)
       /\ (b.k = "lc" /\ b.line \in 1..NumLines(T)) =>
             /\ last.start.Line = b.line
             /\ b.chk = "end" => last.start.Char = Len(lines[b.line])
             /\ (b.chk = "num" /\ b.ch > Len(lines[b.line])) =>
                   last.start.Char = Len(lines[b.line])
             /\ (b.chk = "num" /\ b.ch <= Len(lines[b.line])) =>
                   last.start.Char = b.ch

\* Index has clamped a line number past the last line of a buffer of two lines
C25_Witness ==
    /\ IndexOfBase
    /\ NumLines(T) = 2
    /\ last.index.base.k = "lc" /\ last.index.base.line > 2
    /\ last.start = LastPos(T)

RECURSIVE LineStart(_, _)
\* the offset in the content of t at which line l starts
LineStart(t, l) ==
    IF l = 1 THEN 0 ELSE LineStart(t, l - 1) + Len(t.lines[l - 1]) + 1

\* the offset of the position p of t, a line break counting as one character
Offset(t, p) == LineStart(t, p.Line) + p.Char

\* the positions of the buffer t, and the one at offset o
Positions(t) ==
    {p \in [Line : 1..NumLines(t), Char : 0..MaxChars] : InRange(t, p)}
PosAt(t, o) == CHOOSE p \in Positions(t) : Offset(t, p) = o

\* the last call was Index("P +n chars") or Index("P -n chars") at a valid P
IndexOfChars ==
    /\ last.op = "Index"
    /\ last.index.base.k = "lc" /\ last.index.base.chk = "num"
    /\ InRange(T, Pos(last.index.base.line, last.index.base.ch))
    /\ Len(last.index.mods) = 1
    /\ last.index.mods[1].k = "count" /\ last.index.mods[1].unit = "chars"

\* the base P of the last index, the signed count of its modifier, and the
\* offset P + count
BaseOfLast == Pos(last.index.base.line, last.index.base.ch)
DeltaOfLast ==
    IF last.index.mods[1].sign = "-" THEN 0 - last.index.mods[1].n
    ELSE last.index.mods[1].n
TargetOfLast == Offset(T, BaseOfLast) + DeltaOfLast

\* C26: "+n chars" and "-n chars" move by character offset, a line break being
\* one character, and stop at the start and the end of the content; a negative
\* count moves the other way; without clamping CountChars(P, "P +n chars") is
\* n and "+n chars" followed by "-n chars" gives P again.
C26_CharsByOffset ==
    IndexOfChars =>
       /\ ~last.panic
       /\ last.start = PosAt(T, Max(0, Min(TargetOfLast, Len(Content(T)))))
       /\ TargetOfLast \in 0..Len(Content(T)) =>
             /\ CountChars(T, String(BaseOfLast), last.index)
                   = [panic |-> FALSE, n |-> DeltaOfLast]
             /\ Index(T, AddMod(last.index, Count("-", DeltaOfLast, "chars")))
                   = [panic |-> FALSE, pos |-> BaseOfLast]

\* Index has walked back over a line break
C26_Witness ==
    /\ IndexOfChars
    /\ DeltaOfLast < 0
    /\ last.start.Line < BaseOfLast.Line
    /\ last.start.Char > 0

\* the last call was Index("P +n lines") or Index("P -n lines") at a valid P
IndexOfLines ==
    /\ last.op = "Index"
    /\ last.index.base.k = "lc" /\ last.index.base.chk = "num"
    /\ InRange(T, Pos(last.index.base.line, last.index.base.ch))
    /\ Len(last.index.mods) = 1
    /\ last.index.mods[1].k = "count" /\ last.index.mods[1].unit = "lines"

\* C27: the "lines" modifier moves the line by the signed count, kept within
\* 1..line count, and keeps the char unless it is past the new line's length,
\* which it then becomes; the char is never reset to 0.
C27_LinesKeepChar ==
    IndexOfLines =>
       /\ ~last.panic
       /\ last.start.Line = Max(1, Min(NumLines(T), BaseOfLast.Line + DeltaOfLast))
       /\ last.start.Char = Min(BaseOfLast.Char, Len(lines[last.start.Line]))

\* Index has moved to another line and kept a char that is not 0
C27_Witness ==
    /\ IndexOfLines
    /\ last.start.Line # BaseOfLast.Line
    /\ BaseOfLast.Char > 0
    /\ last.start.Char = BaseOfLast.Char

\* the content of t from the position p1 up to, not including, the position p2
Between(t, p1, p2) == SubSeq(Content(t), Offset(t, p1) + 1, Offset(t, p2))

\* Get, CountChars and CountLines on the indices i1 and i2 of the buffer t, which
\* resolve to p1 and p2
GetAndCounts(t, i1, i2, p1, p2) ==
    /\ ~Get(t, i1, i2).panic
    /\ comparePos(p1, p2) >= 0 => Get(t, i1, i2).text = <<>>
    /\ comparePos(p1, p2) < 0 =>
          /\ Get(t, i1, i2).text = Between(t, p1, p2)
          /\ CountChars(t, i1, i2) = [panic |-> FALSE, n |-> Len(Get(t, i1, i2).text)]
    /\ ~CountChars(t, i1, i2).panic /\ ~CountChars(t, i2, i1).panic
    /\ CountChars(t, i2, i1).n = 0 - CountChars(t, i1, i2).n
    /\ CountLines(t, i1, i2) = [panic |-> FALSE, n |-> p2.Line - p1.Line]

\* C28: Get(i1, i2) is empty when Index(i1) >= Index(i2) and otherwise the text
\* from Index(i1) up to Index(i2), lines joined by line breaks; its length is
\* CountChars(i1, i2), CountChars(i2, i1) = -CountChars(i1, i2), and
\* CountLines(i1, i2) is the difference of the two line numbers.
C28_GetBetween ==
    \A i1 \in IndexSet, i2 \in IndexSet :
       (~Index(T, i1).panic /\ ~Index(T, i2).panic) =>
          GetAndCounts(T, i1, i2, Index(T, i1).pos, Index(T, i2).pos)

RECURSIVE StepsFrom(_, _, _, _, _)
\* the names that k calls give, each call made with the name the one before
\* returned: m = MarkNext(idx), m = MarkNext(m), ...; a call that panics ends
\* the steps
StepsFrom(t, idx, order, reverse, k) ==
    IF k = 0 THEN <<>>
    ELSE IF markStep(t, idx, IndexIn(t, idx, order), reverse).panic THEN <<>>
    ELSE IF markStep(t, idx, IndexIn(t, idx, order), reverse).name = <<>>
    THEN << <<>> >>
    ELSE << markStep(t, idx, IndexIn(t, idx, order), reverse).name >>
            \o StepsFrom(t, NameIdx(markStep(t, idx, IndexIn(t, idx, order), reverse).name),
                         order, reverse, k - 1)

\* the call returned the name of a mark that lies at the position p
ReturnsMarkAt(t, r, p) ==
    ~r.panic /\ r.name \in DOMAIN t.marks /\ MarkPos(t.marks[r.name]) = p

\* C29: m = MarkNext("1.0"), m = MarkNext(m), ... returns every set mark once
\* in the ascending order (line, char, name) and then ""; MarkPrevious from
\* "end" does so in descending order; a mark given as index is not returned,
\* and a mark at the position of a non-mark index is.
C29_MarkSteps ==
    \A order \in Orders(DOMAIN marks) :
       /\ StepsFrom(T, LineChar(1, 0), order, FALSE, Cardinality(DOMAIN marks) + 1)
             = sortedMarks(T, FALSE) \o << <<>> >>
       /\ StepsFrom(T, EndIdx, order, TRUE, Cardinality(DOMAIN marks) + 1)
             = sortedMarks(T, TRUE) \o << <<>> >>
       /\ \A n \in DOMAIN marks :
             /\ MarkNext(T, NameIdx(n), order).name # n
             /\ MarkPrevious(T, NameIdx(n), order).name # n
             /\ ReturnsMarkAt(T, MarkNext(T, String(MarkPos(marks[n])), order),
                              MarkPos(marks[n]))
             /\ ReturnsMarkAt(T, MarkPrevious(T, String(MarkPos(marks[n])), order),
                              MarkPos(marks[n]))

\* the argument of the last call of EditSetModified, FALSE when there was none
FlagLastSet == Len(hist[1]) > 0 /\ hist[1][Len(hist[1])].modified

RECURSIVE SavedIn(_)
\* the content at the last EditSetModified(false) among the calls h, the
\* empty content when there was none
SavedIn(h) ==
    IF h = <<>> THEN <<>>
    ELSE IF ~h[Len(h)].modified THEN h[Len(h)].content
    ELSE SavedIn(SubSeq(h, 1, Len(h) - 1))

\* what EditGetModified is to return
ExpectModified == FlagLastSet \/ Content(T) # SavedIn(hist[1])

\* C30: EditGetModified() returns true exactly when the modified flag was last
\* set to true or the content differs from the content at the last
\* EditSetModified(false) (the empty content when there was none); so it
\* returns false after an EditUndo that restores the saved content.
C30_ModifiedIffChanged ==
    /\ EditGetModified(T) = ExpectModified
    /\ last.op = "EditGetModified" => last.ret = ExpectModified

\* an EditUndo has just brought back a non-empty content saved by
\* EditSetModified(false), and EditGetModified returns false again
C30_Witness ==
    /\ last.op = "EditUndo" /\ last.ret
    /\ Len(hist[1]) > 0 /\ ~FlagLastSet
    /\ SavedIn(hist[1]) # <<>>
    /\ Content(T) = SavedIn(hist[1]) /\ Content(prev) # Content(T)
    /\ ~EditGetModified(T)

\* an index string of the form "<line>.<char>" without modifiers
Canonical(idx) == idx.base.k = "lc" /\ idx.base.chk = "num" /\ idx.mods = <<>>

\* the start and the end of every insertOp and deleteOp of the stack are canonical
CanonicalStack(stack) ==
    \A i \in DOMAIN stack :
       stack[i].k \in {"insert", "delete"} =>
          Canonical(stack[i].sp) /\ Canonical(stack[i].ep)

\* C31: every start and end stored in an insert or delete entry of UndoStack
\* or RedoStack is an index string "<line>.<char>" without modifiers, merged
\* entries included.
C31_CanonicalEndpoints == CanonicalStack(undoStack) /\ CanonicalStack(redoStack)

\* the text the last Delete cut out of the buffer it was called on
CutText == Between(prev, last.start, last.end)

\* the last call changed only the front entry of UndoStack, to an entry of
\* kind k with the text s
FrontBecame(k, s) ==
    /\ Len(undoStack) = Len(prev.undoStack)
    /\ Tail(undoStack) = Tail(prev.undoStack)
    /\ undoStack[1].k = k /\ undoStack[1].s = s

\* the last call pushed one entry of kind k with the text s on UndoStack
PushedOne(k, s) ==
    /\ Tail(undoStack) = prev.undoStack
    /\ undoStack[1].k = k /\ undoStack[1].s = s

\* the last call was an Insert that starts where the insertOp in front ends
InsertContinues ==
    /\ EffectiveInsert /\ prev.undo
    /\ FrontIs(prev.undoStack, "insert") /\ prev.undoStack[1].ep = String(last.start)

\* the last call was a Delete that starts, or ends, where the deleteOp in
\* front starts
DeleteContinuesAt ==
    /\ EffectiveDelete /\ prev.undo /\ InRange(prev, last.end)
    /\ FrontIs(prev.undoStack, "delete") /\ prev.undoStack[1].sp = String(last.start)
DeleteContinuesBefore ==
    /\ EffectiveDelete /\ prev.undo /\ InRange(prev, last.end)
    /\ FrontIs(prev.undoStack, "delete") /\ prev.undoStack[1].sp = String(last.end)
    /\ ~DeleteContinuesAt

\* the edits recorded by the calls seen so far: the merges and pushes that
\* insert and del make on the front of UndoStack
RecordedAsCode ==
    /\ InsertContinues => FrontBecame("insert", prev.undoStack[1].s \o last.s)
    /\ DeleteContinuesAt => FrontBecame("delete", prev.undoStack[1].s \o CutText)
    /\ DeleteContinuesBefore => FrontBecame("delete", CutText \o prev.undoStack[1].s)
    /\ (EffectiveInsert /\ prev.undo /\ ~FrontIs(prev.undoStack, "insert"))
          => PushedOne("insert", last.s)
    /\ (EffectiveDelete /\ prev.undo /\ InRange(prev, last.end)
           /\ ~FrontIs(prev.undoStack, "delete"))
          => PushedOne("delete", CutText)

\* the texts of the runs tried on every state: the first one, with and without
\* a line break, and the one that follows it
RunFirstSet == {<<"b">>, <<"b", NL, "a">>}
RunNext == <<"a">>

\* r2 is what the second edit of a run left, r1 what the first left: the
\* stack kept its length and its front entry is of kind k with the text s
OneEntry(r1, r2, k, s) ==
    /\ ~r2.panic
    /\ Len(r2.t.undoStack) = Len(r1.t.undoStack)
    /\ r2.t.undoStack[1].k = k /\ r2.t.undoStack[1].s = s

\* the position where the text s inserted at p ends
EndOfText(p, s) ==
    IF Breaks(s) = 0 THEN Pos(p.Line, p.Char + Len(s))
    ELSE Pos(p.Line + Breaks(s), LastSegment(s))

\* Insert(p, s1) left r1; Insert(RunNext) where the first one ended
InsertRun(t, p, s1, r1) ==
    ~r1.panic =>
       OneEntry(r1, Insert(r1.t, String(EndOfText(p, s1)), RunNext),
                "insert", r1.t.undoStack[1].s \o RunNext)

\* Delete(p, q) left r1; then Delete(p, q2) and Delete(p0, p)
DeleteRun(t, p, q, r1) ==
    ~r1.panic =>
       /\ \A q2 \in Positions(r1.t) :
             comparePos(p, q2) < 0 =>
                OneEntry(r1, Delete(r1.t, String(p), String(q2)), "delete",
                         r1.t.undoStack[1].s \o Between(r1.t, p, q2))
       /\ \A p0 \in Positions(r1.t) :
             comparePos(p0, p) < 0 =>
                OneEntry(r1, Delete(r1.t, String(p0), String(p)), "delete",
                         Between(r1.t, p0, p) \o r1.t.undoStack[1].s)

\* every run of two Inserts and of two Deletes on the buffer t is one entry
RunsMerged(t) ==
    /\ \A p \in Positions(t), s1 \in RunFirstSet :
          InsertRun(t, p, s1, Insert(t, String(p), s1))
    /\ \A p \in Positions(t), q \in Positions(t) :
          comparePos(p, q) < 0 => DeleteRun(t, p, q, Delete(t, String(p), String(q)))

AccessPoints ==
    {"ins_start", "ins_mutate", "ins_end", "ins_record", "ins_reindex", "ins_rerecord",
     "ins_clear", "cmp1", "cmp2", "del_start", "del_end", "del_mutate", "del_record",
     "del_clear", "get_start", "get_end", "get_read", "egm_enter", "egm_start", "egm_end",
     "egm_read", "cc_start", "cc_end", "cc_line", "cc_walk"}
LockedPoints == AccessPoints \ {"cc_line", "cc_walk"}

\* C33: a thread reads or writes the shared state only while it holds the
\* mutex, so that nothing is written between two reads of one operation.
C33_AccessUnderLock ==
    \A th \in Threads :
       /\ pc[th] \in AccessPoints \ LockedPoints =>
             mutex.readers[th] > 0 \/ mutex.writer = th
       /\ pc[th] = "cc_walk" => loc[th].seen = lines

\* the places of insert and del after the lines were changed and before the
\* entry of the change is in UndoStack
RecordPending ==
    {"ins_end", "ins_record", "ins_reindex", "ins_rerecord", "del_record"}

\* C34: between the structural change of an Insert or a Delete and the
\* recording of its entry the thread holds no lock, so that a whole edit of
\* another thread can take place in between.
C34_WindowUnlocked ==
    \A th \in Threads :
       pc[th] \in RecordPending =>
          mutex.writer # th /\ mutex.readers[th] = 0

\* both calls have returned; the Delete cut out the text the Insert had put in,
\* and yet its entry lies under the entry of the Insert, whose end was
\* resolved on the emptied buffer
C34_Witness ==
    /\ \A th \in Threads : pc[th] = "idle"
    /\ Len(undoStack) >= 2
    /\ undoStack[1].k = "insert" /\ undoStack[1].s = <<"a">>
    /\ undoStack[1].ep = undoStack[1].sp
    /\ undoStack[2].k = "delete" /\ undoStack[2].s = <<"a">> \o ConcText

\* C35: UndoStack never holds two Separators next to each other and never a
\* Separator as its bottom entry.
C35_SeparatorsApart ==
    /\ \A i \in 1..(Len(undoStack) - 1) :
          ~(undoStack[i].k = "sep" /\ undoStack[i + 1].k = "sep")
    /\ undoStack # <<>> => undoStack[Len(undoStack)].k # "sep"

\* C36: an EditUndo() that undoes something, followed at once by EditRedo(),
\* leaves UndoStack with the entries it held before the EditUndo(), in the
\* same order, a Separator that was on top included.
C36_UndoRedoKeepsStack ==
    (mutex = Unlocked /\ EditUndo(T).ret /\ ~UndoThenRedo(T).panic)
       => UndoThenRedo(T).t.undoStack = undoStack

\* C37: MarkSet(name, index) on a mark that is already set changes only that
\* mark's position: its gravity is the same after the call, and every other
\* mark is unchanged.
C37_MarkSetKeepsGravity ==
    (last.op = "MarkSet" /\ ~last.panic /\ last.name \in DOMAIN prev.marks) =>
       /\ DOMAIN marks = DOMAIN prev.marks
       /\ MarkPos(marks[last.name]) = last.start
       /\ MarkGetGravity(T, last.name).gravity = MarkGetGravity(prev, last.name).gravity
       /\ \A n \in DOMAIN marks \ {last.name} : marks[n] = prev.marks[n]

\* ------------------------------------------------------------ screen
TAB == "\t"

\* tabStop of a buffer made by New(); wrapMode is None, xScroll and yScroll 0
tabStop == 8

RECURSIVE expandCols(_, _, _)
\* len(expand(s, tab)), begun at column col: a tab fills up to the next
\* multiple of tab, any other character takes one column
expandCols(s, tab, col) ==
    IF s = <<>> THEN col
    ELSE IF Head(s) = TAB THEN expandCols(Tail(s), tab, ((col \div tab) + 1) * tab)
    ELSE expandCols(Tail(s), tab, col + 1)

\* index+" linestart" and index+" lineend"
LineStartOf(index) == AddMod(index, StartEnd("linestart"))
LineEndOf(index) == AddMod(index, StartEnd("lineend"))

\* CountDisplayLines(index1, index2) of a buffer that does not wrap: [panic, n]
CountDisplayLines(t, index1, index2) ==
    LET pos1 == Index(t, index1)
        pos2 == Index(t, index2)
    IN IF pos1.panic \/ pos2.panic THEN [panic |-> TRUE, n |-> 0]
       ELSE [panic |-> FALSE, n |-> pos2.pos.Line - pos1.pos.Line]

\* DLineInfo(index): [panic, rheld, ret], ret = <<x, y, w>>. The call takes the
\* read lock and releases it by a plain RUnlock() at its end, which a panic of
\* the calls in between skips: rheld is the number of read locks left held.
DLineInfo(t, index) ==
    LET y == CountDisplayLines(t, LineChar(1, 0), index)
        w == Get(t, LineStartOf(index), LineEndOf(index))
        x == Get(t, LineStartOf(index), index)
    IN IF y.panic \/ w.panic \/ x.panic
       THEN [panic |-> TRUE, rheld |-> 1, ret |-> <<>>]
       ELSE [panic |-> FALSE, rheld |-> 0,
             ret |-> <<expandCols(x.text, tabStop, 0), y.n,
                       expandCols(w.text, tabStop, 0)>>]

\* BBox(index): [panic, rheld, ret], ret = <<col, row>>. The column is computed
\* under the read lock, released by a plain RUnlock(); the row is that of
\* DLineInfo(index), called after the release.
BBox(t, index) ==
    LET col == Get(t, LineStartOf(index), index)
        d == DLineInfo(t, index)
    IN IF col.panic THEN [panic |-> TRUE, rheld |-> 1, ret |-> <<>>]
       ELSE IF d.panic THEN [panic |-> TRUE, rheld |-> d.rheld, ret |-> <<>>]
       ELSE [panic |-> FALSE, rheld |-> 0,
             ret |-> <<expandCols(col.text, tabStop, 0), d.ret[2]>>]

\* a call that only reads returned (or panicked) with r: it got the read lock
\* because no writer holds the mutex, and leaves r.rheld read locks held
Shares(r, c) ==
    /\ mutex.writer = 0
    /\ mutex' = [mutex EXCEPT !.readers[1] = @ + r.rheld]
    /\ prev' = T
    /\ last' = [c EXCEPT !.panic = r.panic]
    /\ nops' = nops + 1
    /\ run' = NoRun
    /\ UNCHANGED <<bufVars, pc, call, loc, hist>>

DoGet(index1, index2) ==
    Shares([panic |-> Get(T, index1, index2).panic, rheld |-> 0],
           [NoCall EXCEPT !.op = "Get", !.start = Resolved(T, index1),
                          !.end = Resolved(T, index2), !.s = Get(T, index1, index2).text,
                          !.bad = Malformed(T, index1) \/ Malformed(T, index2)])

DoBBox(index) ==
    Shares(BBox(T, index),
           [NoCall EXCEPT !.op = "BBox", !.start = Resolved(T, index), !.index = index,
                          !.bad = Malformed(T, index)])

DoDLineInfo(index) ==
    Shares(DLineInfo(T, index),
           [NoCall EXCEPT !.op = "DLineInfo", !.start = Resolved(T, index),
                          !.index = index, !.bad = Malformed(T, index)])

\* the inputs of the specification of calls that panic: well-formed indices, a
\* bad char field after a line number in and out of the buffer, a bad modifier
\* and a name that may be no mark
MaxLockOps == 3
LockTextSet == {<<"a">>, <<"a", NL, "b">>}
LockIndexSet ==
    {LineChar(1, 0), LineChar(1, 1), EndIdx, NameIdx(<<"m">>), LineBad(0),
     LineBad(1), LineBad(2), AddMod(LineChar(1, 0), BadMod)}

NextLock ==
    \/ \E index \in LockIndexSet, s \in LockTextSet :
          Within(MaxLockOps) /\ DoInsert(index, s)
    \/ \E index1, index2 \in LockIndexSet :
          Within(MaxLockOps) /\ DoDelete(index1, index2)
    \/ \E index1, index2 \in LockIndexSet :
          Within(MaxLockOps) /\ DoReplace(index1, index2, <<"b">>)
    \/ \E index \in LockIndexSet : Within(MaxLockOps) /\ DoMarkSet(<<"m">>, index)
    \/ \E index \in LockIndexSet :
          Within(MaxLockOps) /\ DoIndex(index, SeqOfSet(DOMAIN marks))
    \/ \E index1, index2 \in LockIndexSet : Within(MaxLockOps) /\ DoGet(index1, index2)
    \/ \E index \in LockIndexSet : Within(MaxLockOps) /\ DoBBox(index)
    \/ \E index \in LockIndexSet : Within(MaxLockOps) /\ DoDLineInfo(index)

SpecLock == Init /\ [][NextLock]_vars

\* C38: after a public operation has panicked on a malformed index, nobody
\* holds the buffer lock, so a following Insert or Delete does not block; so
\* for Index, Get, Insert, Delete, Replace, MarkSet, BBox and DLineInfo.
C38_PanicReleasesLock ==
    (last.panic /\ last.bad) => mutex = Unlocked

\* C39: whether Index rejects an expression depends only on its text and on
\* the names of the marks that are set, never on the lines of the buffer: a
\* base "<line>.<word>" whose word is neither a number nor "end" is rejected
\* for every line number, below 1 and above the line count included.
C39_RejectionByTextAlone ==
    last.op = "Index" => (last.panic <=> last.bad)

====
